---- MODULE Spec2Model ----
(***************************************************************************)
(* Model of the Raycast monitor-input switcher: platform classification,   *)
(* prerequisite validation, the toggle and discovery commands and the      *)
(* DDC/CI command dispatcher they call.                                    *)
(*                                                                         *)
(* Text is modelled as a finite sequence of fragments.  A fragment is a    *)
(* single character where the code looks at characters (digits, sign,      *)
(* white space) and a whole word or literal where it only concatenates or  *)
(* searches.  An object is a function from its own keys to values; reading *)
(* a key it does not have yields Undefined (Get).  An optional value is a  *)
(* sequence of length 0 or 1.                                              *)
(***************************************************************************)
EXTENDS Integers, Sequences, FiniteSets, TLC

\* undefined, where a string is expected: a value no text is equal to
Undefined == <<"<undefined>">>

\* a JavaScript number: an integer or NaN
Num(v) == [nan |-> FALSE, val |-> v]
NaN == [nan |-> TRUE, val |-> 0]

----------------------------------------------------------------------------
(* JavaScript primitives the code relies on *)

\* obj.key : undefined when the object has no such own key
Get(obj, key) == IF key \in DOMAIN obj THEN obj[key] ELSE Undefined

\* { ...a, ...b } : keys of b override keys of a
Spread(a, b) ==
  [k \in (DOMAIN a) \cup (DOMAIN b) |-> IF k \in DOMAIN b THEN b[k] ELSE a[k]]

\* the object the preference store hands out: unset preferences are no keys
Obj(rec) == [k \in {f \in DOMAIN rec : rec[f] # Undefined} |-> rec[k]]

\* `${x}` for a string or undefined
Str(x) == IF x = Undefined THEN <<"undefined">> ELSE x

WhiteSpace == {" ", "\t", "\n"}
DigitChars == {"0", "1", "2", "3", "4", "5", "6", "7", "8", "9"}

DigitVal(c) ==
  CASE c = "0" -> 0 [] c = "1" -> 1 [] c = "2" -> 2 [] c = "3" -> 3
    [] c = "4" -> 4 [] c = "5" -> 5 [] c = "6" -> 6 [] c = "7" -> 7
    [] c = "8" -> 8 [] c = "9" -> 9

DigitChar(d) ==
  CASE d = 0 -> "0" [] d = 1 -> "1" [] d = 2 -> "2" [] d = 3 -> "3"
    [] d = 4 -> "4" [] d = 5 -> "5" [] d = 6 -> "6" [] d = 7 -> "7"
    [] d = 8 -> "8" [] d = 9 -> "9"

RECURSIVE TrimStart(_)
TrimStart(s) ==
  IF s # <<>> /\ Head(s) \in WhiteSpace THEN TrimStart(Tail(s)) ELSE s

RECURSIVE TrimEnd(_)
TrimEnd(s) ==
  IF s # <<>> /\ s[Len(s)] \in WhiteSpace
  THEN TrimEnd(SubSeq(s, 1, Len(s) - 1))
  ELSE s

\* String.prototype.trim
Trim(s) == TrimEnd(TrimStart(s))

\* the longest prefix of s made of decimal digits
RECURSIVE DigitPrefix(_)
DigitPrefix(s) ==
  IF s # <<>> /\ Head(s) \in DigitChars
  THEN <<Head(s)>> \o DigitPrefix(Tail(s))
  ELSE <<>>

RECURSIVE DigitsValue(_, _)
DigitsValue(s, acc) ==
  IF s = <<>> THEN acc ELSE DigitsValue(Tail(s), 10 * acc + DigitVal(Head(s)))

\* parseInt(x, 10): leading white space skipped, an optional sign, then the
\* longest run of digits; NaN when there is no digit.  parseInt(undefined)
\* parses the text "undefined", which has none.
parseInt(x) ==
  IF x = Undefined THEN NaN
  ELSE LET t == TrimStart(x)
           signed == t # <<>> /\ Head(t) \in {"-", "+"}
           body == IF signed THEN Tail(t) ELSE t
           digits == DigitPrefix(body)
       IN  IF digits = <<>> THEN NaN
           ELSE IF signed /\ Head(t) = "-"
                THEN Num(0 - DigitsValue(digits, 0))
                ELSE Num(DigitsValue(digits, 0))

isNaN(n) == n.nan

RECURSIVE NatDigits(_)
NatDigits(n) ==
  IF n < 10 THEN <<DigitChar(n)>>
  ELSE NatDigits(n \div 10) \o <<DigitChar(n % 10)>>

\* `${n}` for a number
NumStr(n) ==
  IF n.nan THEN <<"NaN">>
  ELSE IF n.val < 0 THEN <<"-">> \o NatDigits(0 - n.val)
  ELSE NatDigits(n.val)

\* String.prototype.includes
Includes(text, needle) ==
  \E i \in 0..(Len(text) - Len(needle)) :
    SubSeq(text, i + 1, i + Len(needle)) = needle

\* x || fallback for strings: undefined and "" are falsy
OrElse(x, fallback) == IF x = Undefined \/ x = <<>> THEN fallback ELSE x

----------------------------------------------------------------------------
(* toast.ts *)

\* the module-level object as the module creates it
GenericSuccessObject == [status |-> "success", title |-> <<>>, message |-> <<>>]

\* the fields that object holds now: it is one object, shared by reference
\* among all who import it
VARIABLE genericSuccess

\* a read of GenericSuccess
GenericSuccess == genericSuccess

----------------------------------------------------------------------------
(* node:child_process execSync, as the code uses it *)

\* How a spawned process can end: kind is "exit0", "nonzero", "timeout" or
\* "spawnerr".  execSync returns the captured stdout when the process exits
\* with status 0 and throws in every other case.

Outcome(kind, stdout, stderr) ==
  [kind |-> kind, stdout |-> stdout, stderr |-> stderr]

Throws(outcome) == outcome.kind # "exit0"

\* error.message of what execSync throws
ErrorMessage(command, outcome) ==
  CASE outcome.kind = "nonzero" ->
         <<"Command failed: ">> \o command \o <<"\n">> \o outcome.stderr
    [] outcome.kind = "timeout" -> <<"spawnSync", "ETIMEDOUT">>
    [] OTHER -> <<"spawn", "ENOENT">>

\* one entry of the record of spawned processes
Exec(command, shell, outcome) ==
  [command |-> command, shell |-> shell, outcome |-> outcome]

----------------------------------------------------------------------------
(* lib/platform.ts *)

\* toLowerCase on the fragments a CPU brand string is made of
LowerFragment(c) ==
  CASE c \in {"Apple", "APPLE", "apple"} -> "apple"
    [] c \in {"Intel", "INTEL", "intel"} -> "intel"
    [] c \in {"M", "m"} -> "m"
    [] OTHER -> c

toLowerCase(s) == [i \in 1..Len(s) |-> LowerFragment(s[i])]

\* positions at which /Apple M(\d+)/i matches
ChipMatches(s) ==
  {i \in 1..(Len(s) - 3) :
     /\ LowerFragment(s[i]) = "apple"
     /\ s[i + 1] = " "
     /\ LowerFragment(s[i + 2]) = "m"
     /\ s[i + 3] \in DigitChars}

Min(S) == CHOOSE x \in S : \A y \in S : x <= y

\* the capture group as (\d) would capture it: one digit only
ChipDigits_FirstDigit(s) == <<s[Min(ChipMatches(s)) + 3]>>

\* the capture group of the leftmost match
ChipDigits(s) == DigitPrefix(SubSeq(s, Min(ChipMatches(s)) + 3, Len(s)))

SysctlCommand == <<"\"", "/usr/sbin/sysctl", "\"", " -n machdep.cpu.brand_string">>

\* the classification of the trimmed brand string
ClassifyBrand(brandString) ==
       IF Includes(toLowerCase(brandString), <<"intel">>) THEN "intel"
       ELSE IF ChipMatches(brandString) # {}
            THEN IF parseInt(ChipDigits(brandString)).val >= 2
                 THEN "m2_or_later"
                 ELSE "m1"
       ELSE IF Includes(toLowerCase(brandString), <<"apple">>)
            THEN "m2_or_later"
       ELSE "unknown"

\* detectAppleSiliconGeneration with a catch block that assumes a newer chip
detectAppleSiliconGeneration_AssumesNewer(sysctl) ==
  IF Throws(sysctl) THEN "m2_or_later" ELSE ClassifyBrand(Trim(sysctl.stdout))

detectAppleSiliconGeneration(sysctl) ==
  IF Throws(sysctl) THEN "unknown" ELSE ClassifyBrand(Trim(sysctl.stdout))

\* DarwinInfo with the built-in HDMI flag set for every Apple Silicon chip
DarwinInfo_HdmiOnAnySilicon(chipGen) ==
  [os |-> "darwin", isWin32 |-> FALSE, appleChipGen |-> chipGen,
   isAppleSilicon |-> chipGen # "intel",
   m1ddcSupportsBuiltinHdmi |-> chipGen # "intel"]

\* DarwinInfo counting only a recognised M-series chip as Apple Silicon
DarwinInfo_UnknownNotSilicon(chipGen) ==
  [os |-> "darwin", isWin32 |-> FALSE, appleChipGen |-> chipGen,
   isAppleSilicon |-> chipGen \in {"m1", "m2_or_later"},
   m1ddcSupportsBuiltinHdmi |-> chipGen = "m2_or_later"]

\* the PlatformInfo of a Mac whose chip generation is chipGen
DarwinInfo(chipGen) ==
  [os |-> "darwin", isWin32 |-> FALSE, appleChipGen |-> chipGen,
   isAppleSilicon |-> chipGen # "intel",
   m1ddcSupportsBuiltinHdmi |-> chipGen = "m2_or_later"]

detectPlatform(os, sysctl) ==
  IF os = "win32"
  THEN [os |-> "win32", isWin32 |-> TRUE, appleChipGen |-> "unknown",
        isAppleSilicon |-> FALSE, m1ddcSupportsBuiltinHdmi |-> FALSE]
  ELSE IF os = "darwin"
  THEN DarwinInfo(detectAppleSiliconGeneration(sysctl))
  ELSE [os |-> "unsupported", isWin32 |-> FALSE, appleChipGen |-> "unknown",
        isAppleSilicon |-> FALSE, m1ddcSupportsBuiltinHdmi |-> FALSE]

\* detectPlatform run once by the validation and once more by the command
detectPlatformExecs_Twice(os, sysctl) ==
  IF os = "darwin"
  THEN <<Exec(SysctlCommand, "/bin/bash", sysctl),
         Exec(SysctlCommand, "/bin/bash", sysctl)>>
  ELSE <<>>

\* the processes detectPlatform spawns: sysctl, on macOS only
detectPlatformExecs(os, sysctl) ==
  IF os = "darwin" THEN <<Exec(SysctlCommand, "/bin/bash", sysctl)>> ELSE <<>>

ToastResult(status, title, message) ==
  [status |-> status, title |-> title, message |-> message]

\* PlatformValidation with the M1 warning made a blocking failure
PlatformValidation_M1Blocks(info) ==
  IF info.os = "unsupported"
  THEN Spread(info, ToastResult("failure",
         <<"This extension only supports macOS and Windows.">>, <<>>))
  ELSE IF info.os = "darwin" /\ info.appleChipGen = "intel"
  THEN Spread(info, ToastResult("failure",
         <<"m1ddc requires Apple Silicon (M1 or later)">>,
         <<"M1 is partially supported, Intel Macs are not supported.">>))
  ELSE IF info.os = "darwin" /\ info.appleChipGen = "m1"
  THEN Spread(info, ToastResult("failure",
         <<"m1ddc does not support M1's built-in HDMI port!">>,
         <<"External displays via USB-C/Thunderbolt adapters should work.">>))
  ELSE Spread(info, GenericSuccess)

\* PlatformValidation without the Intel check
PlatformValidation_NoIntelCheck(info) ==
  IF info.os = "unsupported"
  THEN Spread(info, ToastResult("failure",
         <<"This extension only supports macOS and Windows.">>, <<>>))
  ELSE IF info.os = "darwin" /\ info.appleChipGen = "m1"
  THEN Spread(info, ToastResult("soft-fail",
         <<"m1ddc does not support M1's built-in HDMI port!">>,
         <<"External displays via USB-C/Thunderbolt adapters should work.">>))
  ELSE Spread(info, GenericSuccess)

\* PlatformValidation letting an unsupported OS pass
PlatformValidation_UnsupportedPasses(info) ==
  IF info.os = "darwin" /\ info.appleChipGen = "intel"
  THEN Spread(info, ToastResult("failure",
         <<"m1ddc requires Apple Silicon (M1 or later)">>,
         <<"M1 is partially supported, Intel Macs are not supported.">>))
  ELSE IF info.os = "darwin" /\ info.appleChipGen = "m1"
  THEN Spread(info, ToastResult("soft-fail",
         <<"m1ddc does not support M1's built-in HDMI port!">>,
         <<"External displays via USB-C/Thunderbolt adapters should work.">>))
  ELSE Spread(info, GenericSuccess)

\* validateHostPlatform, from the PlatformInfo it has detected on
PlatformValidation(info) ==
  IF info.os = "unsupported"
  THEN Spread(info, ToastResult("failure",
         <<"This extension only supports macOS and Windows.">>, <<>>))
  ELSE IF info.os = "darwin"
  THEN IF info.appleChipGen = "intel"
       THEN Spread(info, ToastResult("failure",
              <<"m1ddc requires Apple Silicon (M1 or later)">>,
              <<"M1 is partially supported, Intel Macs are not supported.">>))
       ELSE IF info.appleChipGen = "m1"
       THEN Spread(info, ToastResult("soft-fail",
              <<"m1ddc does not support M1's built-in HDMI port!">>,
              <<"External displays via USB-C/Thunderbolt adapters should work.">>))
       ELSE Spread(info, GenericSuccess)
  ELSE IF info.os = "win32"
  THEN Spread(info, GenericSuccess)
  ELSE Spread(info, ToastResult("failure", <<"Unknown platform error.">>, <<>>))

validateHostPlatform(os, sysctl) == PlatformValidation(detectPlatform(os, sysctl))

----------------------------------------------------------------------------
(* lib/extension.ts *)

\* the files of the host; existsSync(path) is membership
M1ddcFile == <<"/opt/homebrew/bin/m1ddc">>
ControlMyMonitorFile == <<"C:/Tools/ControlMyMonitor.exe">>
MissingFile == <<"/no/such/tool">>
ExistingFiles == {M1ddcFile, ControlMyMonitorFile}

existsSync(path) == path \in ExistingFiles

\* what the callback handed to forEach returns for one { input, value }
\* entry: a failure object when the value does not parse, nothing otherwise.
\* Array.prototype.forEach discards it; validatePreferences goes on.
NumberCheck(prefs, input, value) ==
  IF isNaN(parseInt(value))
  THEN <<Spread(prefs, ToastResult("failure",
           <<"Invalid ", input, " value">>,
           <<"\"", "NaN", "\"", " is not a valid number">>))>>
  ELSE <<>>

\* validatePreferences checking the ControlMyMonitor path on every platform
validatePreferences_ChecksWindowsPath(platform, prefs) ==
  LET runnableName == "ControlMyMonitor.exe"
      runnablePath == Get(prefs, "controlMyMonitorPath")
  IN
  IF runnablePath = Undefined \/ runnablePath = <<>> \/ Trim(runnablePath) = <<>>
  THEN Spread(prefs, ToastResult("failure",
         <<runnableName, " path not configured">>,
         <<"Path to ", runnableName, " is empty/unset. ">>))
  ELSE IF ~existsSync(runnablePath)
  THEN Spread(prefs, ToastResult("failure",
         <<runnableName, " not found">>, <<"Path: ">> \o runnablePath))
  ELSE Spread(prefs, GenericSuccess)

validatePreferences(platform, prefs) ==
  LET discarded == <<NumberCheck(prefs, "HDMI port", Get(prefs, "hdmiPortValue")),
                     NumberCheck(prefs, "DisplayPort", Get(prefs, "displayPortValue"))>>
      runnableName ==
        IF platform.os = "darwin" THEN "m1ddc" ELSE "ControlMyMonitor.exe"
      runnablePath ==
        IF platform.os = "darwin"
        THEN Get(prefs, "m1ddcPath")
        ELSE Get(prefs, "controlMyMonitorPath")
      errorMessage ==
        IF platform.os = "darwin"
        THEN <<"Path to ", runnableName, " is empty/unset. ",
               "Install via: brew install m1ddc and set the path in extension preferences.">>
        ELSE <<"Path to ", runnableName, " is empty/unset. ",
               "Download from https://www.nirsoft.net/utils/controlmymonitor.zip and set the path in extension preferences.">>
  IN
  IF runnablePath = Undefined \/ runnablePath = <<>> \/ Trim(runnablePath) = <<>>
  THEN Spread(prefs, ToastResult("failure",
         <<runnableName, " path not configured">>, errorMessage))
  ELSE IF ~existsSync(runnablePath)
  THEN Spread(prefs, ToastResult("failure",
         <<runnableName, " not found">>, <<"Path: ">> \o runnablePath))
  ELSE Spread(prefs, GenericSuccess)

----------------------------------------------------------------------------
(* common.ts *)

\* Prerequisites merging the preferences in even under a platform failure
Prerequisites_AlwaysMerges(platformValidation, prefs) ==
  IF platformValidation.status # "failure"
  THEN Spread(platformValidation, validatePreferences(platformValidation, prefs))
  ELSE Spread(validatePreferences(platformValidation, prefs), platformValidation)

\* validatePrerequisites, from the result of validateHostPlatform on
Prerequisites(platformValidation, prefs) ==
  IF platformValidation.status # "failure"
  THEN Spread(platformValidation, validatePreferences(platformValidation, prefs))
  ELSE platformValidation

validatePrerequisites(os, sysctl, prefs) ==
  Prerequisites(validateHostPlatform(os, sysctl), prefs)

\* the number of getPreferenceValues calls validatePrerequisites makes
validatePrerequisitesReads(os, sysctl) ==
  IF validateHostPlatform(os, sysctl).status # "failure" THEN 1 ELSE 0

----------------------------------------------------------------------------
(* lib/ddc.ts *)

\* VCP code for Input Source Select, as the code writes it
VCP_INPUT_SOURCE == 60

Quoted(exePath) == <<"\"">> \o Str(exePath) \o <<"\"">>

MacSetCommand(inputValue, exePath) ==
  Quoted(exePath) \o <<" set input ">> \o NumStr(inputValue)

\* WindowsSetCommand with the value and the VCP code in each other's place
WindowsSetCommand_Swapped(inputValue, monitorId, exePath) ==
  Quoted(exePath) \o <<" /SetValue ", "\"">> \o Str(monitorId) \o <<"\"", " ">>
    \o NumStr(inputValue) \o <<" ">> \o NumStr(Num(VCP_INPUT_SOURCE))

WindowsSetCommand(inputValue, monitorId, exePath) ==
  Quoted(exePath) \o <<" /SetValue ", "\"">> \o Str(monitorId) \o <<"\"", " ">>
    \o NumStr(Num(VCP_INPUT_SOURCE)) \o <<" ">> \o NumStr(inputValue)

NoDisplaysFound == <<"No", "displays", "found">>
DdcCommunicationFailed == <<"DDC", "communication", "failed">>

ConnectivityHint ==
  <<"No DDC/CI compatible displays found. Is the monitor connected and awake?">>
CableHint ==
  <<"DDC/CI communication failed. Try a different cable or check monitor DDC settings.">>

\* the catch block reporting the switch as done
MacSwitchFailure_Swallowed(errorMessage) ==
  [success |-> TRUE, message |-> <<"m1ddc error: ">> \o errorMessage,
   rawOutput |-> <<>>]

\* the catch block without the "DDC communication failed" case
MacSwitchFailure_NoDdcHint(errorMessage) ==
  IF Includes(errorMessage, NoDisplaysFound)
  THEN [success |-> FALSE, message |-> ConnectivityHint]
  ELSE [success |-> FALSE, message |-> <<"m1ddc error: ">> \o errorMessage]

\* the catch block of switchInputMacToWindows
MacSwitchFailure(errorMessage) ==
       IF Includes(errorMessage, NoDisplaysFound)
       THEN [success |-> FALSE, message |-> ConnectivityHint]
       ELSE IF Includes(errorMessage, DdcCommunicationFailed)
       THEN [success |-> FALSE, message |-> CableHint]
       ELSE [success |-> FALSE, message |-> <<"m1ddc error: ">> \o errorMessage]

switchInputMacToWindows(inputValue, exePath, outcome) ==
  IF ~Throws(outcome)
  THEN [success |-> TRUE,
        message |-> <<"Switched to input ">> \o NumStr(inputValue),
        rawOutput |-> Trim(outcome.stdout)]
  ELSE MacSwitchFailure(ErrorMessage(MacSetCommand(inputValue, exePath), outcome))

switchInputWindowsToMac(inputValue, monitorId, exePath, outcome) ==
  IF ~Throws(outcome)
  THEN [success |-> TRUE,
        message |-> <<"Switched to input ">> \o NumStr(inputValue),
        rawOutput |-> Trim(outcome.stdout)]
  ELSE [success |-> FALSE,
        message |-> <<"ControlMyMonitor error: ">>
          \o ErrorMessage(WindowsSetCommand(inputValue, monitorId, exePath),
                          outcome)]

\* SwitchToast building its failure on GenericSuccess and naming no title
SwitchToast_TitleFromGeneric(switchResult, inputValue, exePath) ==
  IF ~switchResult.success
  THEN Spread(GenericSuccess,
         [status |-> "failure",
          message |-> switchResult.message \o <<" :: ">>
            \o OrElse(Get(switchResult, "rawOutput"), <<>>)])
  ELSE GenericSuccess

\* switchInput, from the SwitchResult of the platform's function on
SwitchToast(switchResult, inputValue, exePath) ==
  IF ~switchResult.success
  THEN ToastResult("failure",
         <<"Failed to switch to input ">> \o NumStr(inputValue)
           \o <<" via ">> \o Str(exePath),
         switchResult.message \o <<" :: ">>
           \o OrElse(Get(switchResult, "rawOutput"), <<>>))
  ELSE GenericSuccess

switchInput(platformOs, inputValue, monitorId, exePath, outcome) ==
  SwitchToast(
    IF platformOs = "darwin"
    THEN switchInputMacToWindows(inputValue, exePath, outcome)
    ELSE switchInputWindowsToMac(inputValue, monitorId, exePath, outcome),
    inputValue, exePath)

\* switchInput issuing its command a second time when the first one fails
switchInputExecs_Retry(platformOs, inputValue, monitorId, exePath, outcome) ==
  IF platformOs = "darwin"
  THEN IF Throws(outcome)
       THEN <<Exec(MacSetCommand(inputValue, exePath), "default", outcome),
              Exec(MacSetCommand(inputValue, exePath), "default", outcome)>>
       ELSE <<Exec(MacSetCommand(inputValue, exePath), "default", outcome)>>
  ELSE IF Throws(outcome)
       THEN <<Exec(WindowsSetCommand(inputValue, monitorId, exePath), "cmd.exe", outcome),
              Exec(WindowsSetCommand(inputValue, monitorId, exePath), "cmd.exe", outcome)>>
       ELSE <<Exec(WindowsSetCommand(inputValue, monitorId, exePath), "cmd.exe", outcome)>>

\* the process switchInput spawns
switchInputExecs(platformOs, inputValue, monitorId, exePath, outcome) ==
  IF platformOs = "darwin"
  THEN <<Exec(MacSetCommand(inputValue, exePath), "default", outcome)>>
  ELSE <<Exec(WindowsSetCommand(inputValue, monitorId, exePath), "cmd.exe", outcome)>>

MacGetCommand(exePath) == Quoted(exePath) \o <<" get input">>
MacListCommand(exePath) == Quoted(exePath) \o <<" display list">>
WindowsMonitorsCommand(exePath) == Quoted(exePath) \o <<" /smonitors">>
WindowsGetCommand(monitorId, exePath) ==
  Quoted(exePath) \o <<" /GetValue ", "\"">> \o Str(monitorId) \o <<"\"", " ">>
    \o NumStr(Num(VCP_INPUT_SOURCE))

\* an InputDiscovery; currentValue, availableInfo and error are optional
InputDiscovery(success, currentValue, availableInfo, error) ==
  [success |-> success, currentValue |-> currentValue,
   availableInfo |-> availableInfo, error |-> error]

\* MacReport handing the parsed value on even when it is NaN
MacReport_KeepsNaN(currentValue, displayInfo) ==
  InputDiscovery(TRUE,
    <<currentValue>>,
    << <<"=== macOS DDC/CI Discovery (m1ddc) ===",
         "Current Input Value (VCP 0x60): ">> \o NumStr(currentValue)
         \o <<"Detected Displays:">> \o displayInfo >>,
    <<>>)

\* the report of discoverInputsMacOS once `get input` has returned
MacReport(currentValue, displayInfo) ==
  InputDiscovery(TRUE,
    IF isNaN(currentValue) THEN <<>> ELSE <<currentValue>>,
    << <<"=== macOS DDC/CI Discovery (m1ddc) ===",
         "Current Input Value (VCP 0x60): ">> \o NumStr(currentValue)
         \o <<"Detected Displays:">> \o displayInfo >>,
    <<>>)

\* discoverInputsMacOS with a catch block that drops the error it caught
discoverInputsMacOS_ErrorLost(exePath, first, second) ==
  IF Throws(first)
  THEN InputDiscovery(FALSE, <<>>, <<>>, <<>>)
  ELSE MacReport(parseInt(Trim(first.stdout)),
                  IF Throws(second)
                  THEN <<"(Could not retrieve display list)">>
                  ELSE second.stdout)

discoverInputsMacOS(exePath, first, second) ==
  IF Throws(first)
  THEN InputDiscovery(FALSE, <<>>, <<>>,
         <<<<"m1ddc error: ">> \o ErrorMessage(MacGetCommand(exePath), first)>>)
  ELSE MacReport(parseInt(Trim(first.stdout)),
                  IF Throws(second)
                  THEN <<"(Could not retrieve display list)">>
                  ELSE second.stdout)

\* if (isNaN(currentValue)) currentValue = undefined
NumberOrNothing(n) == IF isNaN(n) THEN <<>> ELSE <<n>>

\* the report of discoverInputsWindows once /smonitors has returned
WindowsReport(monitorInfo, currentValue) ==
  InputDiscovery(TRUE, currentValue,
    << <<"=== Windows DDC/CI Discovery (ControlMyMonitor) ===">>
         \o (IF currentValue = <<>>
             THEN <<"Current Input Value: (Could not read)">>
             ELSE <<"Current Input Value (VCP 0x60): ">>
                    \o NumStr(currentValue[1]))
         \o <<"Detected Monitors:">> \o monitorInfo >>,
    <<>>)

\* discoverInputsWindows without the inner try/catch around /GetValue
discoverInputsWindows_Strict(exePath, monitorId, first, second) ==
  IF Throws(first)
  THEN InputDiscovery(FALSE, <<>>, <<>>,
         <<<<"ControlMyMonitor error: ">>
             \o ErrorMessage(WindowsMonitorsCommand(exePath), first)>>)
  ELSE IF Throws(second)
  THEN InputDiscovery(FALSE, <<>>, <<>>,
         <<<<"ControlMyMonitor error: ">>
             \o ErrorMessage(WindowsGetCommand(monitorId, exePath), second)>>)
  ELSE WindowsReport(first.stdout, NumberOrNothing(parseInt(Trim(second.stdout))))

discoverInputsWindows(exePath, monitorId, first, second) ==
  IF Throws(first)
  THEN InputDiscovery(FALSE, <<>>, <<>>,
         <<<<"ControlMyMonitor error: ">>
             \o ErrorMessage(WindowsMonitorsCommand(exePath), first)>>)
  ELSE WindowsReport(first.stdout,
                     IF Throws(second) THEN <<>>
                     ELSE NumberOrNothing(parseInt(Trim(second.stdout))))

discoverInputs(platformOs, monitorId, exePath, first, second) ==
  IF platformOs = "darwin"
  THEN discoverInputsMacOS(exePath, first, second)
  ELSE discoverInputsWindows(exePath, monitorId, first, second)

\* the processes discoverInputs spawns: the second only once the first has
\* returned
discoverInputsExecs(platformOs, monitorId, exePath, first, second) ==
  IF platformOs = "darwin"
  THEN <<Exec(MacGetCommand(exePath), "default", first)>>
         \o (IF Throws(first) THEN <<>>
             ELSE <<Exec(MacListCommand(exePath), "default", second)>>)
  ELSE <<Exec(WindowsMonitorsCommand(exePath), "cmd.exe", first)>>
         \o (IF Throws(first) THEN <<>>
             ELSE <<Exec(WindowsGetCommand(monitorId, exePath), "cmd.exe", second)>>)

----------------------------------------------------------------------------
(* The inputs of one command run: the host, the preference store, and how   *)
(* each spawned process ends.                                               *)

HostOs == {"darwin", "win32", "linux"}

\* the highest Apple chip generation among the hosts considered
MaxChipGeneration == 3

\* what sysctl prints for machdep.cpu.brand_string
BrandStrings ==
  { <<"Apple", " ", "M">> \o NatDigits(n) \o <<"\n">> : n \in 1..MaxChipGeneration }
    \cup
  { <<"Apple", " ", "M", "1", " ", "Pro", "\n">>,
    <<"Apple", " ", "processor", "\n">>,
    <<"Intel", "(R) Core(TM) i7-9750H CPU", "\n">>,
    <<"QEMU Virtual CPU", "\n">> }

SysctlOutcomes ==
  {Outcome("exit0", b, <<>>) : b \in BrandStrings}
    \cup {Outcome("nonzero", <<>>, <<"sysctl:", "unknown", "oid">>),
          Outcome("timeout", <<>>, <<>>)}

\* the preference store: the texts the user typed, or nothing
DisplayPortValues ==
  {Undefined, <<>>, <<"1", "5">>, <<"-", "5">>, <<"a", "b", "c">>, <<"1", "x">>}
HdmiPortValues == {Undefined, <<"1", "7">>, <<"x">>, <<"-", "1">>}
M1ddcPaths == {Undefined, <<" ">>, M1ddcFile, MissingFile}
ControlMyMonitorPaths == {<<>>, ControlMyMonitorFile, MissingFile}
MonitorIds == {Undefined, <<"DISPLAY2">>}

\* getPreferenceValues<Preferences>()
PreferenceStores ==
  {Obj([displayPortValue |-> d, hdmiPortValue |-> h, m1ddcPath |-> m,
        controlMyMonitorPath |-> c, monitorId |-> i]) :
     d \in DisplayPortValues, h \in HdmiPortValues, m \in M1ddcPaths,
     c \in ControlMyMonitorPaths, i \in MonitorIds}

\* what the DDC tool writes to stderr when it fails
ErrorTexts ==
  { <<>>,
    <<"DDC", "communication", "failed", ":", "timeout">>,
    <<"Error:", "No", "displays", "found">>,
    <<"No", "displays", "found", ";", "DDC", "communication", "failed">>,
    <<"ddc", "communication", "failed">>,
    <<"Access", "denied">> }

SwitchOutcomes ==
  {Outcome("exit0", <<>>, <<>>), Outcome("timeout", <<>>, <<>>),
   Outcome("spawnerr", <<>>, <<>>)}
    \cup {Outcome("nonzero", <<>>, e) : e \in ErrorTexts}

\* how a process started from exePath can end: exit status 0 needs the
\* executable to exist (the shell fails the command otherwise)
Runs(exePath, outcomes) ==
  {o \in outcomes : existsSync(exePath) \/ o.kind # "exit0"}

\* the first discovery process (get input, /smonitors)
FirstOutcomes ==
  {Outcome("exit0", <<"1", "7", "\n">>, <<>>),
   Outcome("exit0", <<"DELL U2720Q", "\n">>, <<>>),
   Outcome("nonzero", <<>>, <<"No", "displays", "found">>),
   Outcome("timeout", <<>>, <<>>),
   Outcome("spawnerr", <<>>, <<>>)}

\* the second discovery process (display list, /GetValue)
SecondOutcomes ==
  {Outcome("exit0", <<"1", "5", "\n">>, <<>>),
   Outcome("exit0", <<"[1] DELL U2720Q", "\n">>, <<>>),
   Outcome("nonzero", <<>>, <<"Access", "denied">>),
   Outcome("timeout", <<>>, <<>>)}

----------------------------------------------------------------------------
(* State *)

VARIABLES
  hostOs,             \* what os.platform() returns on this host
  preferenceStore,    \* what getPreferenceValues() returns on this host
  entry,              \* the command the user ran: "none", "toggle", "discover"
  pc,                 \* where the command is
  completeValidation, \* the validation result the command holds, if any
  resolvedExePath,    \* toggle: the executable it resolved
  resolvedInput,      \* toggle: the input value it resolved
  windowClosed,       \* closeMainWindow has run
  toast,              \* the toast on screen, if any
  result,             \* toggle: what switchInput returned, if called
  discovery,          \* discover: what discoverInputs returned, if called
  view,               \* discover: the Detail view returned
  execLog,            \* every process the command has spawned, in order
  prefReads,          \* the number of getPreferenceValues calls
  secondToggle        \* a second toggle command started while the first is
                      \* suspended: its own position and locals

vars == <<genericSuccess, secondToggle, hostOs, preferenceStore, entry, pc,
          completeValidation, resolvedExePath, resolvedInput,
          windowClosed, toast, result, discovery, view, execLog, prefReads>>

\* the second command before it is started
NotStarted ==
  [pc |-> "idle", startedWhile |-> "never", completeValidation |-> <<>>,
   resolvedExePath |-> Undefined, resolvedInput |-> NaN, windowClosed |-> FALSE,
   toast |-> <<>>, result |-> <<>>, execLog |-> <<>>]

Toast(style, title, message) ==
  [style |-> style, title |-> title, message |-> message]

Init ==
  /\ hostOs \in HostOs
  /\ preferenceStore \in PreferenceStores
  /\ entry = "none"
  /\ pc = "idle"
  /\ completeValidation = <<>>
  /\ resolvedExePath = Undefined
  /\ resolvedInput = NaN
  /\ windowClosed = FALSE
  /\ toast = <<>>
  /\ result = <<>>
  /\ discovery = <<>>
  /\ view = "none"
  /\ execLog = <<>>
  /\ prefReads = 0
  /\ secondToggle = NotStarted
  /\ genericSuccess = GenericSuccessObject

----------------------------------------------------------------------------
(* toggle-input-source.tsx: Command, one action per stretch between awaits *)

\* validatePrerequisites(); on failure the failure toast and return;
\* otherwise the executable and the input value are resolved
ToggleValidate ==
  /\ pc = "idle"
  /\ \E sysctl \in SysctlOutcomes, prefs \in {preferenceStore} :
     \E cv \in {validatePrerequisites(hostOs, sysctl, prefs)} :
       /\ entry' = "toggle"
       /\ completeValidation' = <<cv>>
       /\ execLog' = execLog \o detectPlatformExecs(hostOs, sysctl)
       /\ prefReads' = prefReads + validatePrerequisitesReads(hostOs, sysctl)
       /\ IF cv.status = "failure"
          THEN /\ toast' = <<Toast("Failure", cv.title, cv.message)>>
               /\ pc' = "done"
               /\ UNCHANGED <<resolvedExePath, resolvedInput>>
          ELSE /\ resolvedExePath' =
                    IF cv.os = "darwin"
                    THEN Get(cv, "m1ddcPath")
                    ELSE Get(cv, "controlMyMonitorPath")
               /\ resolvedInput' =
                    IF cv.os = "darwin"
                    THEN parseInt(Get(cv, "displayPortValue"))
                    ELSE parseInt(Get(cv, "hdmiPortValue"))
               /\ pc' = "closing"
               /\ UNCHANGED toast
  /\ UNCHANGED <<genericSuccess, secondToggle, hostOs, preferenceStore, windowClosed, result, discovery, view>>

\* await closeMainWindow()
ToggleCloseMainWindow ==
  /\ pc = "closing"
  /\ windowClosed' = TRUE
  /\ pc' = "toasting"
  /\ UNCHANGED <<genericSuccess, secondToggle, hostOs, preferenceStore, entry, completeValidation, resolvedExePath,
                 resolvedInput, toast, result, discovery, view, execLog,
                 prefReads>>

\* await showToast({ style: Animated, ... })
ToggleShowToast ==
  /\ pc = "toasting"
  /\ toast' = <<Toast("Animated", <<"Switching!">>,
                  <<"To input ">> \o NumStr(resolvedInput) \o <<" via ">>
                    \o Str(resolvedExePath))>>
  /\ pc' = "waiting"
  /\ UNCHANGED <<genericSuccess, secondToggle, hostOs, preferenceStore, entry, completeValidation, resolvedExePath,
                 resolvedInput, windowClosed, result, discovery, view, execLog,
                 prefReads>>

\* await setTimeout(3000)
ToggleTimeout ==
  /\ pc = "waiting"
  /\ pc' = "switching"
  /\ UNCHANGED <<genericSuccess, secondToggle, hostOs, preferenceStore, entry, completeValidation, resolvedExePath,
                 resolvedInput, windowClosed, toast, result, discovery, view,
                 execLog, prefReads>>

\* ToggleSwitch without the else branch that turns the toast into a failure
ToggleSwitch_LeavesToast ==
  /\ pc = "switching"
  /\ \E outcome \in Runs(resolvedExePath, SwitchOutcomes),
        cv \in {completeValidation[1]} :
     \E monitorId \in {OrElse(Get(cv, "monitorId"), <<"Primary">>)} :
     \E r \in {switchInput(cv.os, resolvedInput, monitorId, resolvedExePath,
                           outcome)} :
       /\ execLog' = execLog \o switchInputExecs(cv.os, resolvedInput, monitorId,
                                                 resolvedExePath, outcome)
       /\ result' = <<r>>
       /\ toast' =
            IF r.status = "success"
            THEN <<Toast("Success",
                     <<"Switched to input (">> \o NumStr(resolvedInput) \o <<")">>,
                     <<>>)>>
            ELSE toast
  /\ pc' = "done"
  /\ UNCHANGED <<genericSuccess, secondToggle, hostOs, preferenceStore, entry, completeValidation, resolvedExePath,
                 resolvedInput, windowClosed, discovery, view, prefReads>>

\* ToggleSwitch writing the success title into the result object, which is
\* the shared GenericSuccess, instead of into the toast
ToggleSwitch_WritesResult ==
  /\ pc = "switching"
  /\ \E outcome \in Runs(resolvedExePath, SwitchOutcomes),
        cv \in {completeValidation[1]} :
     \E monitorId \in {OrElse(Get(cv, "monitorId"), <<"Primary">>)} :
     \E r \in {switchInput(cv.os, resolvedInput, monitorId, resolvedExePath,
                           outcome)} :
       /\ execLog' = execLog \o switchInputExecs(cv.os, resolvedInput, monitorId,
                                                 resolvedExePath, outcome)
       /\ IF r.status = "success"
          THEN /\ genericSuccess' =
                    [genericSuccess EXCEPT
                       !.title = <<"Switched to input (">>
                                   \o NumStr(resolvedInput) \o <<")">>]
               /\ result' = <<genericSuccess'>>
               /\ toast' = <<Toast("Success", toast[1].title, toast[1].message)>>
          ELSE /\ genericSuccess' = genericSuccess
               /\ result' = <<r>>
               /\ toast' = <<Toast("Failure", r.title, r.message)>>
  /\ pc' = "done"
  /\ UNCHANGED <<secondToggle, hostOs, preferenceStore, entry, completeValidation,
                 resolvedExePath, resolvedInput, windowClosed, discovery, view,
                 prefReads>>

\* switchInput(...) and the toast that reports it
ToggleSwitch ==
  /\ pc = "switching"
  /\ \E outcome \in Runs(resolvedExePath, SwitchOutcomes),
        cv \in {completeValidation[1]} :
     \E monitorId \in {OrElse(Get(cv, "monitorId"), <<"Primary">>)} :
     \E r \in {switchInput(cv.os, resolvedInput, monitorId, resolvedExePath,
                           outcome)} :
       /\ execLog' = execLog \o switchInputExecs(cv.os, resolvedInput, monitorId,
                                                 resolvedExePath, outcome)
       /\ result' = <<r>>
       /\ toast' =
            IF r.status = "success"
            THEN <<Toast("Success",
                     <<"Switched to input (">> \o NumStr(resolvedInput) \o <<")">>,
                     <<>>)>>
            ELSE <<Toast("Failure", r.title, r.message)>>
  /\ pc' = "done"
  /\ UNCHANGED <<genericSuccess, secondToggle, hostOs, preferenceStore, entry, completeValidation, resolvedExePath,
                 resolvedInput, windowClosed, discovery, view, prefReads>>

----------------------------------------------------------------------------
(* discover-inputs.tsx: Command, which is synchronous *)

DiscoverCommand ==
  /\ pc = "idle"
  /\ \E sysctl \in SysctlOutcomes, prefs \in {preferenceStore} :
     \E pv \in {validatePrerequisites(hostOs, sysctl, prefs)} :
     \E monitorId \in {OrElse(Get(pv, "monitorId"), <<"Primary">>)},
        exePath \in {IF pv.isAppleSilicon
                     THEN Get(pv, "m1ddcPath")
                     ELSE Get(pv, "controlMyMonitorPath")} :
     \E first \in Runs(exePath, FirstOutcomes),
        second \in Runs(exePath, SecondOutcomes) :
       /\ entry' = "discover"
       /\ completeValidation' = <<pv>>
       /\ prefReads' = prefReads + validatePrerequisitesReads(hostOs, sysctl)
       /\ IF pv.os = "unsupported"
          THEN /\ view' = "nothing"
               /\ discovery' = <<>>
               /\ execLog' = execLog \o detectPlatformExecs(hostOs, sysctl)
          ELSE IF "displayPortValue" \notin DOMAIN pv
          THEN /\ view' = "platform"
               /\ discovery' = <<>>
               /\ execLog' = execLog \o detectPlatformExecs(hostOs, sysctl)
          ELSE /\ \E d \in {discoverInputs(pv.os, monitorId, exePath, first,
                                             second)} :
                    /\ view' = IF d.success THEN "results" ELSE "failed"
                    /\ discovery' = <<d>>
               /\ execLog' = execLog \o detectPlatformExecs(hostOs, sysctl)
                    \o discoverInputsExecs(pv.os, monitorId, exePath, first, second)
  /\ pc' = "done"
  /\ UNCHANGED <<genericSuccess, secondToggle, hostOs, preferenceStore, resolvedExePath, resolvedInput, windowClosed, toast,
                 result>>

----------------------------------------------------------------------------

Next ==
  \/ ToggleValidate
  \/ ToggleCloseMainWindow
  \/ ToggleShowToast
  \/ ToggleTimeout
  \/ ToggleSwitch
  \/ DiscoverCommand

Spec == Init /\ [][Next]_vars

----------------------------------------------------------------------------
(* Platform classification on its own: validateHostPlatform() called on a   *)
(* host whose sysctl may print any brand string of up to MaxBrandLen        *)
(* fragments, or fail.                                                      *)

\* the longest brand string considered, in fragments
MaxBrandLen == 5

BrandFragments ==
  {"Apple", "apple", "Intel", "M", " ", "0", "1", "2"}

AnyBrandStrings == UNION {[1..n -> BrandFragments] : n \in 0..MaxBrandLen}

AnySysctlOutcomes ==
  {Outcome("exit0", b, <<>>) : b \in AnyBrandStrings}
    \cup {Outcome("nonzero", <<>>, <<"sysctl:", "unknown", "oid">>),
          Outcome("timeout", <<>>, <<>>),
          Outcome("spawnerr", <<>>, <<>>)}

\* a preference store with every path and code configured
ConfiguredPreferences ==
  Obj([displayPortValue |-> <<"1", "5">>, hdmiPortValue |-> <<"1", "7">>,
       m1ddcPath |-> M1ddcFile, controlMyMonitorPath |-> ControlMyMonitorFile,
       monitorId |-> Undefined])

ClassifyInit ==
  /\ hostOs \in HostOs
  /\ preferenceStore = ConfiguredPreferences
  /\ entry = "none"
  /\ pc = "idle"
  /\ completeValidation = <<>>
  /\ resolvedExePath = Undefined
  /\ resolvedInput = NaN
  /\ windowClosed = FALSE
  /\ toast = <<>>
  /\ result = <<>>
  /\ discovery = <<>>
  /\ view = "none"
  /\ execLog = <<>>
  /\ prefReads = 0
  /\ secondToggle = NotStarted
  /\ genericSuccess = GenericSuccessObject

\* validateHostPlatform(): detectPlatform() and the verdict on what it found
ClassifyHost ==
  /\ pc = "idle"
  /\ \E sysctl \in AnySysctlOutcomes :
     \E pv \in {validateHostPlatform(hostOs, sysctl)} :
       /\ completeValidation' = <<pv>>
       /\ execLog' = execLog \o detectPlatformExecs(hostOs, sysctl)
  /\ pc' = "done"
  /\ UNCHANGED <<genericSuccess, secondToggle, hostOs, preferenceStore, entry, resolvedExePath, resolvedInput,
                 windowClosed, toast, result, discovery, view, prefReads>>

ClassifyNext == ClassifyHost

ClassifySpec == ClassifyInit /\ [][ClassifyNext]_vars

----------------------------------------------------------------------------
(* Two toggle commands in one JavaScript context: the second is started    *)
(* while the first is suspended at one of its awaits, and from then on the  *)
(* two are interleaved at their awaits.  Each holds its own locals; the     *)
(* host, the preference store and the module-level objects are shared.      *)

\* the preference stores of the hosts considered for two commands
OverlapPreferenceStores ==
  {Obj([displayPortValue |-> d, hdmiPortValue |-> <<"1", "7">>, m1ddcPath |-> m,
        controlMyMonitorPath |-> ControlMyMonitorFile, monitorId |-> Undefined]) :
     d \in {<<"1", "5">>, <<"a", "b", "c">>}, m \in {M1ddcFile, MissingFile}}

TwoToggleInit ==
  /\ hostOs \in HostOs
  /\ preferenceStore \in OverlapPreferenceStores
  /\ entry = "none"
  /\ pc = "idle"
  /\ completeValidation = <<>>
  /\ resolvedExePath = Undefined
  /\ resolvedInput = NaN
  /\ windowClosed = FALSE
  /\ toast = <<>>
  /\ result = <<>>
  /\ discovery = <<>>
  /\ view = "none"
  /\ execLog = <<>>
  /\ prefReads = 0
  /\ secondToggle = NotStarted
  /\ genericSuccess = GenericSuccessObject

\* the first command is suspended at an await
FirstSuspended ==
  entry = "toggle" /\ pc \in {"closing", "toasting", "waiting", "switching"}

\* the second command: validatePrerequisites(), the failure toast and return,
\* or the executable and the input value resolved
SecondValidate ==
  /\ FirstSuspended
  /\ secondToggle.pc = "idle"
  /\ \E sysctl \in SysctlOutcomes, prefs \in {preferenceStore} :
     \E cv \in {validatePrerequisites(hostOs, sysctl, prefs)} :
       /\ prefReads' = prefReads + validatePrerequisitesReads(hostOs, sysctl)
       /\ secondToggle' =
            IF cv.status = "failure"
            THEN [secondToggle EXCEPT
                    !.pc = "done",
                    !.startedWhile = pc,
                    !.completeValidation = <<cv>>,
                    !.execLog = detectPlatformExecs(hostOs, sysctl),
                    !.toast = <<Toast("Failure", cv.title, cv.message)>>]
            ELSE [secondToggle EXCEPT
                    !.pc = "closing",
                    !.startedWhile = pc,
                    !.completeValidation = <<cv>>,
                    !.execLog = detectPlatformExecs(hostOs, sysctl),
                    !.resolvedExePath =
                       IF cv.os = "darwin"
                       THEN Get(cv, "m1ddcPath")
                       ELSE Get(cv, "controlMyMonitorPath"),
                    !.resolvedInput =
                       IF cv.os = "darwin"
                       THEN parseInt(Get(cv, "displayPortValue"))
                       ELSE parseInt(Get(cv, "hdmiPortValue"))]
  /\ UNCHANGED <<genericSuccess, hostOs, preferenceStore, entry, pc,
                 completeValidation, resolvedExePath, resolvedInput,
                 windowClosed, toast, result, discovery, view, execLog>>

\* the second command: await closeMainWindow()
SecondCloseMainWindow ==
  /\ secondToggle.pc = "closing"
  /\ secondToggle' = [secondToggle EXCEPT !.pc = "toasting", !.windowClosed = TRUE]
  /\ UNCHANGED <<genericSuccess, hostOs, preferenceStore, entry, pc,
                 completeValidation, resolvedExePath, resolvedInput,
                 windowClosed, toast, result, discovery, view, execLog,
                 prefReads>>

\* the second command: await showToast({ style: Animated, ... })
SecondShowToast ==
  /\ secondToggle.pc = "toasting"
  /\ secondToggle' =
       [secondToggle EXCEPT
          !.pc = "waiting",
          !.toast = <<Toast("Animated", <<"Switching!">>,
                        <<"To input ">> \o NumStr(secondToggle.resolvedInput)
                          \o <<" via ">> \o Str(secondToggle.resolvedExePath))>>]
  /\ UNCHANGED <<genericSuccess, hostOs, preferenceStore, entry, pc,
                 completeValidation, resolvedExePath, resolvedInput,
                 windowClosed, toast, result, discovery, view, execLog,
                 prefReads>>

\* the second command: await setTimeout(3000)
SecondTimeout ==
  /\ secondToggle.pc = "waiting"
  /\ secondToggle' = [secondToggle EXCEPT !.pc = "switching"]
  /\ UNCHANGED <<genericSuccess, hostOs, preferenceStore, entry, pc,
                 completeValidation, resolvedExePath, resolvedInput,
                 windowClosed, toast, result, discovery, view, execLog,
                 prefReads>>

\* the second command: switchInput(...) and the toast that reports it
SecondSwitch ==
  /\ secondToggle.pc = "switching"
  /\ \E outcome \in Runs(secondToggle.resolvedExePath, SwitchOutcomes),
        cv \in {secondToggle.completeValidation[1]} :
     \E monitorId \in {OrElse(Get(cv, "monitorId"), <<"Primary">>)} :
     \E r \in {switchInput(cv.os, secondToggle.resolvedInput, monitorId,
                           secondToggle.resolvedExePath, outcome)} :
       secondToggle' =
         [secondToggle EXCEPT
            !.pc = "done",
            !.execLog = secondToggle.execLog
                          \o switchInputExecs(cv.os, secondToggle.resolvedInput,
                                              monitorId,
                                              secondToggle.resolvedExePath, outcome),
            !.result = <<r>>,
            !.toast =
               IF r.status = "success"
               THEN <<Toast("Success",
                        <<"Switched to input (">>
                          \o NumStr(secondToggle.resolvedInput) \o <<")">>,
                        <<>>)>>
               ELSE <<Toast("Failure", r.title, r.message)>>]
  /\ UNCHANGED <<genericSuccess, hostOs, preferenceStore, entry, pc,
                 completeValidation, resolvedExePath, resolvedInput,
                 windowClosed, toast, result, discovery, view, execLog,
                 prefReads>>

TwoToggleNext ==
  \/ ToggleValidate
  \/ ToggleCloseMainWindow
  \/ ToggleShowToast
  \/ ToggleTimeout
  \/ ToggleSwitch
  \/ SecondValidate
  \/ SecondCloseMainWindow
  \/ SecondShowToast
  \/ SecondTimeout
  \/ SecondSwitch

TwoToggleSpec == TwoToggleInit /\ [][TwoToggleNext]_vars

----------------------------------------------------------------------------
(* The older variant: lib/platform.ts returning an error message or null,   *)
(* and the lib/ddc.ts dispatcher that validates by itself and runs a bare   *)
(* m1ddc found on the PATH.                                                 *)

SysctlCommandOld == <<"sysctl", " -n machdep.cpu.brand_string">>
WhichCommand == <<"which", " ", "m1ddc">>

\* detectPlatform of the older variant: no isWin32 field
detectPlatformOld(os, sysctl) ==
  IF os = "win32"
  THEN [os |-> "win32", isAppleSilicon |-> FALSE, appleChipGen |-> "unknown",
        m1ddcSupportsBuiltinHdmi |-> FALSE]
  ELSE IF os = "darwin"
  THEN \* chipGen = detectAppleSiliconGeneration()
       [os |-> "darwin",
        isAppleSilicon |-> detectAppleSiliconGeneration(sysctl) # "intel",
        appleChipGen |-> detectAppleSiliconGeneration(sysctl),
        m1ddcSupportsBuiltinHdmi |->
          detectAppleSiliconGeneration(sysctl) = "m2_or_later"]
  ELSE [os |-> "unsupported", isAppleSilicon |-> FALSE, appleChipGen |-> "unknown",
        m1ddcSupportsBuiltinHdmi |-> FALSE]

detectPlatformOldExecs(os, sysctl) ==
  IF os = "darwin" THEN <<Exec(SysctlCommandOld, "default", sysctl)>> ELSE <<>>

\* execSync("which m1ddc") returned
isM1ddcInstalled(which) == ~Throws(which)

\* isControlMyMonitorInstalled that takes any non-blank path as installed
isControlMyMonitorInstalled_AnyPath(path) ==
  IF path = Undefined \/ path = <<>> \/ Trim(path) = <<>>
  THEN FALSE
  ELSE TRUE

isControlMyMonitorInstalled(path) ==
  IF path = Undefined \/ path = <<>> \/ Trim(path) = <<>>
  THEN FALSE
  ELSE existsSync(path)

\* validatePrerequisites of the older variant, from the PlatformInfo it has
\* detected on: the error message, or nothing for null
validatePrerequisitesOld(info, which, controlMyMonitorPath) ==
  IF info.os = "unsupported"
  THEN << <<"This extension only supports macOS and Windows.">> >>
  ELSE IF info.os = "darwin"
  THEN IF info.appleChipGen = "intel"
       THEN << <<"m1ddc requires Apple Silicon (M1 or later). Intel Macs are not supported.">> >>
       ELSE IF ~isM1ddcInstalled(which)
       THEN << <<"m1ddc is not installed. Install via: brew install m1ddc">> >>
       ELSE <<>>
  ELSE IF info.os = "win32"
  THEN IF controlMyMonitorPath = Undefined \/ controlMyMonitorPath = <<>>
            \/ Trim(controlMyMonitorPath) = <<>>
       THEN << <<"ControlMyMonitor path not configured. ",
                 "Download from https://www.nirsoft.net/utils/controlmymonitor.zip ",
                 "and set the path in extension preferences.">> >>
       ELSE IF ~isControlMyMonitorInstalled(controlMyMonitorPath)
       THEN << <<"ControlMyMonitor not found at: ">> \o controlMyMonitorPath >>
       ELSE <<>>
  ELSE << <<"Unknown platform error.">> >>

\* the processes validatePrerequisites of the older variant spawns
validatePrerequisitesOldExecs(os, sysctl, which) ==
  detectPlatformOldExecs(os, sysctl)
    \o (IF os = "darwin" /\ detectPlatformOld(os, sysctl).appleChipGen # "intel"
        THEN <<Exec(WhichCommand, "default", which)>>
        ELSE <<>>)

MacSetCommandOld(inputValue) == <<"m1ddc", " set input ">> \o NumStr(inputValue)
MacGetCommandOld == <<"m1ddc", " get input">>
MacListCommandOld == <<"m1ddc", " display list">>

\* switchInputMacOS of the older variant
switchInputMacOS(inputValue, outcome) ==
  IF ~Throws(outcome)
  THEN [success |-> TRUE,
        message |-> <<"Switched to input ">> \o NumStr(inputValue),
        rawOutput |-> Trim(outcome.stdout)]
  ELSE MacSwitchFailure(ErrorMessage(MacSetCommandOld(inputValue), outcome))

\* switchInputWindows of the older variant
switchInputWindows(inputValue, exePath, monitorId, outcome) ==
  IF ~Throws(outcome)
  THEN [success |-> TRUE,
        message |-> <<"Switched to input ">> \o NumStr(inputValue),
        rawOutput |-> Trim(outcome.stdout)]
  ELSE [success |-> FALSE,
        message |-> <<"ControlMyMonitor error: ">>
          \o ErrorMessage(WindowsSetCommand(inputValue, monitorId, exePath),
                          outcome)]

\* switchInput of the older variant, from the prerequisite error on
switchInputOld(prereqError, os, inputValue, controlMyMonitorPath, monitorId, outcome) ==
  IF prereqError # <<>>
  THEN [success |-> FALSE, message |-> prereqError[1]]
  ELSE IF os = "darwin"
  THEN switchInputMacOS(inputValue, outcome)
  ELSE IF os = "win32"
  THEN switchInputWindows(inputValue, controlMyMonitorPath, monitorId, outcome)
  ELSE [success |-> FALSE, message |-> <<"Unsupported platform.">>]

\* the processes switchInput of the older variant spawns after validation:
\* detectPlatform once more, then the tool
switchInputOldExecs(prereqError, os, sysctl, inputValue, controlMyMonitorPath, monitorId, outcome) ==
  IF prereqError # <<>>
  THEN <<>>
  ELSE detectPlatformOldExecs(os, sysctl)
         \o (IF os = "darwin"
             THEN <<Exec(MacSetCommandOld(inputValue), "default", outcome)>>
             ELSE IF os = "win32"
             THEN <<Exec(WindowsSetCommand(inputValue, monitorId,
                                           controlMyMonitorPath),
                         "cmd.exe", outcome)>>
             ELSE <<>>)

\* discoverInputsMacOS of the older variant
discoverInputsMacOSOld(first, second) ==
  IF Throws(first)
  THEN InputDiscovery(FALSE, <<>>, <<>>,
         <<<<"m1ddc error: ">> \o ErrorMessage(MacGetCommandOld, first)>>)
  ELSE MacReport(parseInt(Trim(first.stdout)),
                  IF Throws(second)
                  THEN <<"(Could not retrieve display list)">>
                  ELSE second.stdout)

\* discoverInputs of the older variant, from the prerequisite error on
discoverInputsOld(prereqError, os, controlMyMonitorPath, monitorId, first, second) ==
  IF prereqError # <<>>
  THEN InputDiscovery(FALSE, <<>>, <<>>, <<prereqError[1]>>)
  ELSE IF os = "darwin"
  THEN discoverInputsMacOSOld(first, second)
  ELSE IF os = "win32"
  THEN discoverInputsWindows(controlMyMonitorPath, monitorId, first, second)
  ELSE InputDiscovery(FALSE, <<>>, <<>>, << <<"Unsupported platform.">> >>)

\* the processes discoverInputs of the older variant spawns after validation
discoverInputsOldExecs(prereqError, os, sysctl, controlMyMonitorPath, monitorId, first, second) ==
  IF prereqError # <<>>
  THEN <<>>
  ELSE detectPlatformOldExecs(os, sysctl)
         \o (IF os = "darwin"
             THEN <<Exec(MacGetCommandOld, "default", first)>>
                    \o (IF Throws(first) THEN <<>>
                        ELSE <<Exec(MacListCommandOld, "default", second)>>)
             ELSE IF os = "win32"
             THEN discoverInputsExecs(os, monitorId, controlMyMonitorPath,
                                      first, second)
             ELSE <<>>)

\* how `which m1ddc` can end
WhichOutcomes ==
  {Outcome("exit0", M1ddcFile \o <<"\n">>, <<>>),
   Outcome("nonzero", <<>>, <<>>),
   Outcome("timeout", <<>>, <<>>)}

\* the input values the commands of the older variant pass
OldInputValues == {Num(15), Num(17)}

\* the preferences the commands of the older variant pass on
OldPreferenceStores ==
  {Obj([controlMyMonitorPath |-> c, monitorId |-> i]) :
     c \in {Undefined, <<>>, <<" ">>, ControlMyMonitorFile, MissingFile},
     i \in MonitorIds}

\* how the tool started by the older variant can end: a bare m1ddc was found
\* by `which`; ControlMyMonitor runs from a path
RunsOld(os, exePath, outcomes) ==
  IF os = "win32" THEN Runs(exePath, outcomes) ELSE outcomes

OldInit ==
  /\ hostOs \in HostOs
  /\ preferenceStore \in OldPreferenceStores
  /\ entry = "none"
  /\ pc = "idle"
  /\ completeValidation = <<>>
  /\ resolvedExePath = Undefined
  /\ resolvedInput = NaN
  /\ windowClosed = FALSE
  /\ toast = <<>>
  /\ result = <<>>
  /\ discovery = <<>>
  /\ view = "none"
  /\ execLog = <<>>
  /\ prefReads = 0
  /\ secondToggle = NotStarted
  /\ genericSuccess = GenericSuccessObject

\* switchInput(inputValue, prefs.controlMyMonitorPath || undefined,
\*             prefs.monitorId || "Primary") of the older variant
OldSwitchInput ==
  /\ pc = "idle"
  /\ \E inputValue \in OldInputValues,
        path \in {OrElse(Get(preferenceStore, "controlMyMonitorPath"), Undefined)},
        monitorId \in {OrElse(Get(preferenceStore, "monitorId"), <<"Primary">>)},
        sysctl \in SysctlOutcomes, which \in WhichOutcomes,
        again \in SysctlOutcomes :
     \E prereqError \in {validatePrerequisitesOld(detectPlatformOld(hostOs, sysctl),
                                                  which, path)},
        platform \in {detectPlatformOld(hostOs, again)} :
     \E outcome \in RunsOld(platform.os, path, SwitchOutcomes) :
       /\ completeValidation' = <<[prereqError |-> prereqError]>>
       /\ resolvedInput' = inputValue
       /\ resolvedExePath' = path
       /\ result' = <<switchInputOld(prereqError, platform.os, inputValue, path,
                                     monitorId, outcome)>>
       /\ execLog' = execLog \o validatePrerequisitesOldExecs(hostOs, sysctl, which)
            \o switchInputOldExecs(prereqError, platform.os, again, inputValue,
                                   path, monitorId, outcome)
  /\ entry' = "switchInput"
  /\ pc' = "done"
  /\ UNCHANGED <<genericSuccess, secondToggle, hostOs, preferenceStore,
                 windowClosed, toast, discovery, view, prefReads>>

\* discoverInputs(prefs.controlMyMonitorPath || undefined,
\*                prefs.monitorId || "Primary") of the older variant
OldDiscoverInputs ==
  /\ pc = "idle"
  /\ \E path \in {OrElse(Get(preferenceStore, "controlMyMonitorPath"), Undefined)},
        monitorId \in {OrElse(Get(preferenceStore, "monitorId"), <<"Primary">>)},
        sysctl \in SysctlOutcomes, which \in WhichOutcomes,
        again \in SysctlOutcomes :
     \E prereqError \in {validatePrerequisitesOld(detectPlatformOld(hostOs, sysctl),
                                                  which, path)},
        platform \in {detectPlatformOld(hostOs, again)} :
     \E first \in RunsOld(platform.os, path, FirstOutcomes),
        second \in RunsOld(platform.os, path, SecondOutcomes) :
       /\ completeValidation' = <<[prereqError |-> prereqError]>>
       /\ resolvedExePath' = path
       /\ discovery' = <<discoverInputsOld(prereqError, platform.os, path, monitorId,
                                           first, second)>>
       /\ execLog' = execLog \o validatePrerequisitesOldExecs(hostOs, sysctl, which)
            \o discoverInputsOldExecs(prereqError, platform.os, again, path,
                                      monitorId, first, second)
  /\ entry' = "discoverInputs"
  /\ pc' = "done"
  /\ UNCHANGED <<genericSuccess, secondToggle, hostOs, preferenceStore,
                 resolvedInput, windowClosed, toast, result, view, prefReads>>

OldNext ==
  \/ OldSwitchInput
  \/ OldDiscoverInputs

OldSpec == OldInit /\ [][OldNext]_vars

----------------------------------------------------------------------------
(* What the claims talk about *)

PreferenceKeys ==
  {"displayPortValue", "hdmiPortValue", "m1ddcPath", "controlMyMonitorPath",
   "monitorId"}

Validated == completeValidation # <<>>

IsToolExec(e) == e.command # SysctlCommand

\* the spawned processes that run the DDC tool
ToolExecs == SelectSeq(execLog, IsToolExec)

SwitchCalled == result # <<>>
DiscoverCalled == discovery # <<>>

\* a configured code string that parseInt turns into a number
Parses(key) == ~isNaN(parseInt(Get(preferenceStore, key)))

\* a configured code string that parseInt turns into NaN
Unparsable(key) ==
  key \in DOMAIN preferenceStore /\ isNaN(parseInt(preferenceStore[key]))

\* the path configured for the tool of this host
ConfiguredTool ==
  IF hostOs = "darwin"
  THEN Get(preferenceStore, "m1ddcPath")
  ELSE Get(preferenceStore, "controlMyMonitorPath")

\* the configured tool path is a non-blank path of a file that exists
ToolPresent ==
  /\ ConfiguredTool # Undefined
  /\ Trim(ConfiguredTool) # <<>>
  /\ ConfiguredTool \in ExistingFiles

\* the command has classified the host as a Mac of the given chip generation
ClassifiedAs(chipGen) ==
  /\ Validated
  /\ completeValidation[1].os = "darwin"
  /\ completeValidation[1].appleChipGen = chipGen

\* macOS on an M1 with the tool present and both codes numeric
M1Ready ==
  /\ ClassifiedAs("m1")
  /\ ToolPresent
  /\ Parses("displayPortValue") /\ Parses("hdmiPortValue")

M1WarningTitle == <<"m1ddc does not support M1's built-in HDMI port!">>

----------------------------------------------------------------------------
(* Claims *)

\* C1 (as stated): whenever the DisplayPort or the HDMI code string of the
\* validated configuration does not parse (parseInt gives NaN), the combined
\* validation result has status "failure" and the toggle command never calls
\* switchInput nor spawns the tool.
C1_UnparsableCodeBlocks ==
  (entry = "toggle" /\ Validated
     /\ (Unparsable("displayPortValue") \/ Unparsable("hdmiPortValue")))
    => (/\ completeValidation[1].status = "failure"
        /\ ~SwitchCalled
        /\ ToolExecs = <<>>)

\* C2 (as stated): on Windows the toggle command's set-value command line is
\* "<exePath>" /SetValue "<m>" 96 <v>, and every get-value command line the
\* discovery builds passes 96 as VCP code too.
C2_VcpArgumentIs96 ==
  /\ (SwitchCalled /\ completeValidation[1].os = "win32")
       => execLog[Len(execLog)].command =
            <<"\"">> \o Str(resolvedExePath) \o <<"\"", " /SetValue ", "\"">>
              \o OrElse(Get(completeValidation[1], "monitorId"), <<"Primary">>)
              \o <<"\"", " ", "9", "6", " ">> \o NumStr(resolvedInput)
  /\ \A i \in DOMAIN execLog :
       Includes(execLog[i].command, <<" /GetValue ">>)
         => SubSeq(execLog[i].command, Len(execLog[i].command) - 2,
                   Len(execLog[i].command)) = <<" ", "9", "6">>

\* C2 (amended): on Windows the toggle command's set-value command line is
\* "<exePath>" /SetValue "<m>" 60 <v>: the VCP code argument is the literal
\* 60 (the hexadecimal digits of 0x60) in every set-value and get-value
\* command line the code builds.
C2_VcpArgumentIs60 ==
  /\ (SwitchCalled /\ completeValidation[1].os = "win32")
       => execLog[Len(execLog)].command =
            <<"\"">> \o Str(resolvedExePath) \o <<"\"", " /SetValue ", "\"">>
              \o OrElse(Get(completeValidation[1], "monitorId"), <<"Primary">>)
              \o <<"\"", " ", "6", "0", " ">> \o NumStr(resolvedInput)
  /\ \A i \in DOMAIN execLog :
       Includes(execLog[i].command, <<" /GetValue ">>)
         => SubSeq(execLog[i].command, Len(execLog[i].command) - 2,
                   Len(execLog[i].command)) = <<" ", "6", "0">>

\* a Windows toggle has run its set-value command with a numeric value
C2_Witness ==
  /\ entry = "toggle" /\ SwitchCalled
  /\ completeValidation[1].os = "win32"
  /\ ~resolvedInput.nan
  /\ Includes(execLog[Len(execLog)].command, <<" /SetValue ">>)

\* C3 (as stated): on macOS with an M1, the tool present and numeric codes,
\* the combined validation result has status "soft-fail" and the M1
\* built-in-HDMI warning as title.
C3_M1WarningSurvivesMerge ==
  M1Ready
    => (/\ completeValidation[1].status = "soft-fail"
        /\ completeValidation[1].title = M1WarningTitle)

\* C4: on macOS with an M1, the tool present and numeric codes, the toggle
\* command is not blocked: it never ends without having called switchInput,
\* and the executable, the input value and the command line it dispatches
\* are those an M2-or-later machine with the same preferences gets.
C4_M1ToggleProceeds ==
  (entry = "toggle" /\ M1Ready)
    => (/\ completeValidation[1].status # "failure"
        /\ pc = "done" => SwitchCalled
        /\ \E m2 \in {Prerequisites(PlatformValidation(DarwinInfo("m2_or_later")),
                                    preferenceStore)} :
             /\ m2.status # "failure"
             /\ resolvedExePath = Get(m2, "m1ddcPath")
             /\ resolvedInput = parseInt(Get(m2, "displayPortValue"))
             /\ SwitchCalled =>
                  /\ Len(ToolExecs) = 1
                  /\ ToolExecs[1].command =
                       MacSetCommand(parseInt(Get(m2, "displayPortValue")),
                                     Get(m2, "m1ddcPath")))

\* an M1 toggle has dispatched its switch
C4_Witness ==
  /\ entry = "toggle" /\ pc = "done" /\ SwitchCalled
  /\ M1Ready
  /\ Len(ToolExecs) = 1

\* C5: on an Intel Mac validation is a blocking failure whatever the
\* preferences are; the preferences are never read, and neither command
\* calls switchInput or discoverInputs or spawns the tool.
C5_IntelAlwaysBlocked ==
  ClassifiedAs("intel")
    => (/\ completeValidation[1].status = "failure"
        /\ prefReads = 0
        /\ (DOMAIN completeValidation[1]) \cap PreferenceKeys = {}
        /\ ~SwitchCalled /\ ~DiscoverCalled
        /\ ToolExecs = <<>>
        /\ pc = "done")

\* the discovery command has run on an Intel Mac
C5_Witness ==
  /\ entry = "discover" /\ pc = "done"
  /\ ClassifiedAs("intel")
  /\ ToolPresent /\ Parses("displayPortValue")
  /\ view = "platform"

\* C6 (as stated): whenever the combined validation result has status
\* "failure", neither the toggle command nor the discovery command calls
\* switchInput or discoverInputs, and no tool process is spawned.
C6_FailureShortCircuits ==
  (Validated /\ completeValidation[1].status = "failure")
    => (~SwitchCalled /\ ~DiscoverCalled /\ ToolExecs = <<>>)

\* C7: switchInput returns status "success" exactly when its execSync call
\* returned, that is when the process it spawned exited with status 0; and it
\* spawns exactly one process.
C7_SuccessIffExitZero ==
  SwitchCalled
    => (/\ Len(ToolExecs) = 1
        /\ ToolExecs[1] = execLog[Len(execLog)]
        /\ (result[1].status = "success") <=> (ToolExecs[1].outcome.kind = "exit0")
        /\ result[1].status \in {"success", "failure"})

\* switchInput has returned a failure for a process that ended badly
C7_Witness ==
  /\ SwitchCalled
  /\ result[1].status = "failure"
  /\ ToolExecs[1].outcome.kind = "timeout"

\* the text of the error a failed switch process raised
SwitchError == ErrorMessage(ToolExecs[1].command, ToolExecs[1].outcome)

SwitchFailed == SwitchCalled /\ ToolExecs[1].outcome.kind # "exit0"

\* C8 (as stated): on either platform, a switch whose process fails with
\* error text containing "DDC communication failed" yields a failure whose
\* message is the cable/DDC-setting guidance and not the raw error text, and
\* one containing "No displays found" yields the connectivity hint.
C8_HintsOnEitherPlatform ==
  SwitchFailed
    => (/\ result[1].status = "failure"
        /\ (Includes(SwitchError, DdcCommunicationFailed)
              /\ ~Includes(SwitchError, NoDisplaysFound))
             => (/\ Includes(result[1].message, CableHint)
                 /\ ~Includes(result[1].message, SwitchError))
        /\ Includes(SwitchError, NoDisplaysFound)
             => Includes(result[1].message, ConnectivityHint))

\* C8 (amended): on macOS, a switch whose process fails with error text
\* containing "No displays found" yields a failure whose message is the
\* connectivity hint; otherwise one containing "DDC communication failed"
\* yields the cable/DDC-setting guidance; neither carries the raw error text,
\* and any other error text is passed through.  On Windows every error text
\* is passed through and no guidance is given.
C8_HintsOnMacOnly ==
  SwitchFailed
    => (/\ result[1].status = "failure"
        /\ IF completeValidation[1].os = "darwin"
           THEN IF Includes(SwitchError, NoDisplaysFound)
                THEN /\ Includes(result[1].message, ConnectivityHint)
                     /\ ~Includes(result[1].message, SwitchError)
                ELSE IF Includes(SwitchError, DdcCommunicationFailed)
                THEN /\ Includes(result[1].message, CableHint)
                     /\ ~Includes(result[1].message, SwitchError)
                ELSE /\ Includes(result[1].message, SwitchError)
                     /\ ~Includes(result[1].message, CableHint)
                     /\ ~Includes(result[1].message, ConnectivityHint)
           ELSE /\ Includes(result[1].message, SwitchError)
                /\ ~Includes(result[1].message, CableHint)
                /\ ~Includes(result[1].message, ConnectivityHint))

\* a macOS switch has failed with "DDC communication failed" and no
\* "No displays found" in its error text
C8_Witness ==
  /\ SwitchFailed
  /\ completeValidation[1].os = "darwin"
  /\ Includes(SwitchError, DdcCommunicationFailed)
  /\ ~Includes(SwitchError, NoDisplaysFound)
  /\ Includes(result[1].message, CableHint)

\* the configured ControlMyMonitor path is set, not blank and not a file
WindowsToolMissing ==
  /\ hostOs = "win32"
  /\ ConfiguredTool # Undefined
  /\ Trim(ConfiguredTool) # <<>>
  /\ ~existsSync(ConfiguredTool)

\* C9 (as stated): on Windows with a configured tool path that does not
\* exist, validation is a blocking failure whose message contains the
\* configured path, and no command is dispatched.
C9_MissingToolBlocks ==
  (Validated /\ WindowsToolMissing)
    => (/\ completeValidation[1].status = "failure"
        /\ Includes(completeValidation[1].message, ConfiguredTool)
        /\ ~SwitchCalled /\ ~DiscoverCalled
        /\ ToolExecs = <<>>)

\* C10 (as stated): a configured input code that parses to a negative integer
\* is rejected by validation, and switchInput is never called with a negative
\* input value.
C10_NegativeCodeRejected ==
  /\ (entry = "toggle" /\ Validated
        /\ \E k \in {"displayPortValue", "hdmiPortValue"} :
             /\ Parses(k)
             /\ parseInt(Get(preferenceStore, k)).val < 0)
       => completeValidation[1].status = "failure"
  /\ SwitchCalled => (resolvedInput.nan \/ resolvedInput.val >= 0)

\* macOS on an M1 whose configured tool path is unset, blank or not a file
M1ToolMissing == ClassifiedAs("m1") /\ ~ToolPresent

\* C11 (as stated): on macOS with an M1 and the tool not found (path unset,
\* blank or not a file), the combined validation result is the blocking tool
\* failure and not the M1 warning, and nothing is dispatched: neither
\* switchInput nor discoverInputs is called and no tool process is spawned.
C11_ToolFailureBeatsM1Warning ==
  M1ToolMissing
    => (/\ completeValidation[1].status = "failure"
        /\ completeValidation[1].title \in
             {<<"m1ddc", " path not configured">>, <<"m1ddc", " not found">>}
        /\ completeValidation[1].title # M1WarningTitle
        /\ ~SwitchCalled /\ ~DiscoverCalled
        /\ ToolExecs = <<>>)

\* the discovery command has called discoverInputs on the given platform
DiscoveryOn(os) == DiscoverCalled /\ completeValidation[1].os = os

\* the second process of a discovery was spawned and failed
SecondFailed == Len(ToolExecs) = 2 /\ Throws(ToolExecs[2].outcome)

\* C12: discoverInputs on Windows fails exactly when its first process
\* (/smonitors) fails; when /smonitors succeeds and /GetValue throws, the
\* result is success with currentValue undefined and a report that holds the
\* monitor list /smonitors printed.
C12_GetValueFailureTolerated ==
  DiscoveryOn("win32")
    => (/\ ToolExecs[1].command = WindowsMonitorsCommand(ConfiguredTool)
        /\ discovery[1].success <=> ~Throws(ToolExecs[1].outcome)
        /\ ~Throws(ToolExecs[1].outcome)
             => (/\ Len(ToolExecs) = 2
                 /\ Includes(ToolExecs[2].command, <<" /GetValue ">>))
        /\ SecondFailed
             => (/\ discovery[1].success
                 /\ discovery[1].currentValue = <<>>
                 /\ discovery[1].error = <<>>
                 /\ Len(discovery[1].availableInfo) = 1
                 /\ Includes(discovery[1].availableInfo[1],
                             <<"Detected Monitors:">>
                               \o ToolExecs[1].outcome.stdout)))

\* a Windows discovery whose /smonitors succeeded and whose /GetValue failed
C12_Witness ==
  /\ DiscoveryOn("win32")
  /\ ToolExecs[1].outcome.kind = "exit0"
  /\ SecondFailed
  /\ view = "results"

\* C13: discoverInputs on macOS fails exactly when `get input` fails; when
\* `get input` succeeds and its output does not parse as an integer, the
\* result is success with currentValue omitted (and the parsed number
\* otherwise); when `display list` fails the result is still success, with the
\* placeholder text in the report.
C13_MacDiscoveryDegrades ==
  DiscoveryOn("darwin")
    => (/\ ToolExecs[1].command = MacGetCommand(ConfiguredTool)
        /\ discovery[1].success <=> ~Throws(ToolExecs[1].outcome)
        /\ ~Throws(ToolExecs[1].outcome)
             => (/\ Len(ToolExecs) = 2
                 /\ ToolExecs[2].command = MacListCommand(ConfiguredTool)
                 /\ discovery[1].error = <<>>
                 /\ discovery[1].currentValue =
                      IF isNaN(parseInt(Trim(ToolExecs[1].outcome.stdout)))
                      THEN <<>>
                      ELSE <<parseInt(Trim(ToolExecs[1].outcome.stdout))>>)
        /\ SecondFailed
             => (/\ discovery[1].success
                 /\ Includes(discovery[1].availableInfo[1],
                             <<"Detected Displays:",
                               "(Could not retrieve display list)">>)))

\* a macOS discovery whose `get input` printed no number and whose
\* `display list` failed
C13_Witness ==
  /\ DiscoveryOn("darwin")
  /\ ToolExecs[1].outcome.kind = "exit0"
  /\ isNaN(parseInt(Trim(ToolExecs[1].outcome.stdout)))
  /\ SecondFailed
  /\ discovery[1].success
  /\ discovery[1].currentValue = <<>>

\* the number of CPU-identification (sysctl) processes spawned so far
SysctlExecCount == Len(execLog) - Len(ToolExecs)

\* C14 (as stated): over any run of the toggle command or of the discovery
\* command, platform classification and validation included, at most one
\* external process is spawned.
C14_AtMostOneProcess == Len(execLog) <= 1

\* C14 (amended): a command spawns at most one CPU-identification process,
\* and only on macOS; besides it the toggle command spawns at most one tool
\* process (the set-input command) and the discovery command at most two (its
\* two queries).  So a toggle spawns at most 2 processes on macOS and 1 on
\* Windows, a discovery at most 3 on macOS and 2 on Windows, and none is
\* spawned on an unsupported OS.
C14_ProcessBudget ==
  /\ SysctlExecCount <= (IF hostOs = "darwin" THEN 1 ELSE 0)
  /\ entry = "toggle" => Len(ToolExecs) <= 1
  /\ entry = "discover" => Len(ToolExecs) <= 2
  /\ hostOs = "linux" => execLog = <<>>
  /\ entry = "none" => execLog = <<>>

\* a macOS discovery has spawned sysctl and both of its queries
C14_Witness ==
  /\ entry = "discover" /\ pc = "done"
  /\ hostOs = "darwin"
  /\ SysctlExecCount = 1
  /\ Len(ToolExecs) = 2
  /\ Len(execLog) = 3

\* C15: within one run of the toggle command the set-input command is
\* executed at most once whatever its outcome; it is executed exactly when
\* switchInput is called, and after a failed switch the command has ended
\* with the failure result and the failure toast, nothing being re-issued.
C15_NoRetry ==
  entry = "toggle"
    => (/\ Len(ToolExecs) <= 1
        /\ SwitchCalled <=> Len(ToolExecs) = 1
        /\ (SwitchCalled /\ Throws(ToolExecs[1].outcome))
             => (/\ pc = "done"
                 /\ result[1].status = "failure"
                 /\ toast = <<Toast("Failure", result[1].title,
                                    result[1].message)>>))

\* a toggle whose set-input process exited with a non-zero status has ended
C15_Witness ==
  /\ entry = "toggle" /\ pc = "done"
  /\ SwitchCalled
  /\ ToolExecs[1].outcome.kind = "nonzero"
  /\ Len(ToolExecs) = 1
  /\ toast[1].style = "Failure"

\* the brand string the command's sysctl process printed, trimmed
BrandPrinted == Trim(execLog[1].outcome.stdout)

\* the command ran sysctl and sysctl exited with status 0
SysctlPrinted ==
  /\ Validated /\ hostOs = "darwin"
  /\ execLog # <<>> /\ execLog[1].command = SysctlCommand
  /\ execLog[1].outcome.kind = "exit0"

\* the command ran sysctl and sysctl failed
SysctlFailed ==
  /\ Validated /\ hostOs = "darwin"
  /\ execLog # <<>> /\ execLog[1].command = SysctlCommand
  /\ execLog[1].outcome.kind # "exit0"

AppleWords == {"Apple", "APPLE", "apple"}
IntelWords == {"Intel", "INTEL", "intel"}

\* the text has one of the words in it, in any letter case
HasWord(t, words) == \E i \in DOMAIN t : t[i] \in words

\* "Apple M<digit>" starts at position i of the text, in any letter case
ChipPatternAt(t, i) ==
  /\ i + 3 <= Len(t)
  /\ t[i] \in AppleWords /\ t[i + 1] = " " /\ t[i + 2] \in {"M", "m"}
  /\ t[i + 3] \in DigitChars

HasChipPattern(t) == \E i \in DOMAIN t : ChipPatternAt(t, i)

\* the number a run of decimal digits denotes, read from its last digit
RECURSIVE DecimalValue(_)
DecimalValue(ds) ==
  IF ds = <<>> THEN 0
  ELSE DigitVal(ds[Len(ds)]) + 10 * DecimalValue(SubSeq(ds, 1, Len(ds) - 1))

\* N of the first "Apple M<N>" in the text: all the digits that follow the M
ChipNumber(t) ==
  LET i == CHOOSE k \in DOMAIN t :
             ChipPatternAt(t, k) /\ \A j \in 1..(k - 1) : ~ChipPatternAt(t, j)
      last == CHOOSE e \in (i + 3)..Len(t) :
                /\ \A j \in (i + 3)..e : t[j] \in DigitChars
                /\ e = Len(t) \/ t[e + 1] \notin DigitChars
  IN  DecimalValue(SubSeq(t, i + 3, last))

\* the PlatformInfo fields of a validation result
PlatformInfoKeys ==
  {"os", "isWin32", "appleChipGen", "isAppleSilicon", "m1ddcSupportsBuiltinHdmi"}

\* C16: whatever sysctl does (any output text, non-zero exit, timeout, spawn
\* error), detectPlatform returns a complete PlatformInfo; the chip generation
\* is "unknown" when sysctl failed and when its output has neither "Intel"
\* nor "Apple" in it.
C16_ClassificationNeverFails ==
  pc = "done"
    => (/\ Validated
        /\ PlatformInfoKeys \subseteq DOMAIN completeValidation[1]
        /\ completeValidation[1].os \in {"darwin", "win32", "unsupported"}
        /\ completeValidation[1].appleChipGen
             \in {"m1", "m2_or_later", "intel", "unknown"}
        /\ completeValidation[1].isWin32 \in BOOLEAN
        /\ completeValidation[1].isAppleSilicon \in BOOLEAN
        /\ completeValidation[1].m1ddcSupportsBuiltinHdmi \in BOOLEAN
        /\ SysctlFailed => completeValidation[1].appleChipGen = "unknown"
        /\ (SysctlPrinted /\ ~HasWord(BrandPrinted, IntelWords)
              /\ ~HasWord(BrandPrinted, AppleWords))
             => completeValidation[1].appleChipGen = "unknown")

\* sysctl could not be spawned and the host was classified all the same
C16_Witness ==
  /\ SysctlFailed
  /\ execLog[1].outcome.kind = "spawnerr"
  /\ completeValidation[1].os = "darwin"
  /\ completeValidation[1].appleChipGen = "unknown"

\* C17 (as stated, matching taken without regard to letter case as the code
\* does): a brand string containing "Intel" is classified Intel; otherwise
\* one matching "Apple M<N>" is classified M1 exactly when N = 1 and
\* M2-or-later exactly when N >= 2; otherwise one containing "Apple" is
\* classified M2-or-later; anything else is Unknown.
C17_M1ExactlyWhenNIsOne ==
  SysctlPrinted
    => IF HasWord(BrandPrinted, IntelWords)
       THEN completeValidation[1].appleChipGen = "intel"
       ELSE IF HasChipPattern(BrandPrinted)
       THEN /\ (completeValidation[1].appleChipGen = "m1")
                 <=> (ChipNumber(BrandPrinted) = 1)
            /\ (completeValidation[1].appleChipGen = "m2_or_later")
                 <=> (ChipNumber(BrandPrinted) >= 2)
       ELSE IF HasWord(BrandPrinted, AppleWords)
       THEN completeValidation[1].appleChipGen = "m2_or_later"
       ELSE completeValidation[1].appleChipGen = "unknown"

\* C17 (amended): matching without regard to letter case, on the trimmed
\* output: a brand string containing "Intel" is classified Intel; otherwise
\* one matching "Apple M<N>", N being all the digits after the M of the first
\* match, is classified M2-or-later when N >= 2 and M1 when N < 2 (N = 1 and
\* N = 0); otherwise one containing "Apple" is classified M2-or-later;
\* anything else is Unknown.
C17_M1WhenNBelowTwo ==
  SysctlPrinted
    => completeValidation[1].appleChipGen =
         IF HasWord(BrandPrinted, IntelWords) THEN "intel"
         ELSE IF HasChipPattern(BrandPrinted)
         THEN IF ChipNumber(BrandPrinted) >= 2 THEN "m2_or_later" ELSE "m1"
         ELSE IF HasWord(BrandPrinted, AppleWords) THEN "m2_or_later"
         ELSE "unknown"

\* sysctl printed a two-digit chip number and the host was classified by it
C17_Witness ==
  /\ SysctlPrinted
  /\ ~HasWord(BrandPrinted, IntelWords)
  /\ HasChipPattern(BrandPrinted)
  /\ ChipNumber(BrandPrinted) >= 10
  /\ completeValidation[1].appleChipGen = "m2_or_later"

\* C18: in the PlatformInfo detectPlatform returns, the built-in HDMI flag is
\* true exactly when the OS is macOS and the chip generation is M2-or-later;
\* on Windows and on an unsupported OS the flag is false and the chip
\* generation is "unknown".
C18_BuiltinHdmiIffM2OrLater ==
  Validated
    => (/\ completeValidation[1].m1ddcSupportsBuiltinHdmi
             <=> (/\ completeValidation[1].os = "darwin"
                  /\ completeValidation[1].appleChipGen = "m2_or_later")
        /\ completeValidation[1].os = "darwin" <=> hostOs = "darwin"
        /\ completeValidation[1].os = "win32" <=> hostOs = "win32"
        /\ completeValidation[1].os # "darwin"
             => (/\ ~completeValidation[1].m1ddcSupportsBuiltinHdmi
                 /\ completeValidation[1].appleChipGen = "unknown"))

\* a Mac classified M1 from its brand string, flag down
C18_Witness ==
  /\ SysctlPrinted
  /\ completeValidation[1].os = "darwin"
  /\ completeValidation[1].appleChipGen = "m1"
  /\ completeValidation[1].isAppleSilicon
  /\ ~completeValidation[1].m1ddcSupportsBuiltinHdmi

\* a string that is not ""
NonEmptyText(t) == t # Undefined /\ \E i \in DOMAIN t : t[i] # ""

\* what detectPlatform returned to the command: the PlatformInfo fields of
\* the validation result
DetectedPlatform ==
  [k \in PlatformInfoKeys |-> completeValidation[1][k]]

\* C19: every result with status "failure" has a non-empty title: the result
\* of validateHostPlatform, the result of validatePreferences, the merged
\* result of validatePrerequisites, and the result of switchInput.
C19_FailureHasTitle ==
  /\ Validated
       => (/\ completeValidation[1].status = "failure"
                => NonEmptyText(completeValidation[1].title)
           /\ \A pv \in {PlatformValidation(DetectedPlatform)} :
                /\ pv.status = "failure" => NonEmptyText(pv.title)
                /\ pv.status # "failure"
                     => \A vp \in {validatePreferences(pv, preferenceStore)} :
                          vp.status = "failure" => NonEmptyText(vp.title))
  /\ (SwitchCalled /\ result[1].status = "failure")
       => NonEmptyText(result[1].title)

\* switchInput has returned a failure and validation had let the toggle pass
C19_Witness ==
  /\ SwitchCalled
  /\ result[1].status = "failure"
  /\ NonEmptyText(result[1].title)
  /\ completeValidation[1].status # "failure"

\* C20: whatever the external process does (exit 0, non-zero exit, timeout,
\* spawn error), switchInput returns a ToastResult and discoverInputs an
\* InputDiscovery: a process that fails is reported in the returned value
\* (status "failure" with title and message; success false with the error
\* text), and the command that called goes on to its end.
C20_FaultsBecomeValues ==
  /\ SwitchCalled
       => (/\ DOMAIN result[1] = {"status", "title", "message"}
           /\ result[1].status \in {"success", "failure"}
           /\ ToolExecs[1].outcome.kind
                \in {"exit0", "nonzero", "timeout", "spawnerr"}
           /\ Throws(ToolExecs[1].outcome)
                => (/\ result[1].status = "failure"
                    /\ NonEmptyText(result[1].message))
           /\ pc = "done" /\ toast # <<>>
           /\ toast[1].style \in {"Success", "Failure"})
  /\ DiscoverCalled
       => (/\ DOMAIN discovery[1] =
                {"success", "currentValue", "availableInfo", "error"}
           /\ discovery[1].success \in BOOLEAN
           /\ ToolExecs[1].outcome.kind
                \in {"exit0", "nonzero", "timeout", "spawnerr"}
           /\ IF discovery[1].success
              THEN /\ Len(discovery[1].availableInfo) = 1
                   /\ discovery[1].error = <<>>
              ELSE /\ Len(discovery[1].error) = 1
                   /\ Includes(discovery[1].error[1],
                               ErrorMessage(ToolExecs[1].command,
                                            ToolExecs[1].outcome))
                   /\ discovery[1].availableInfo = <<>>
           /\ Throws(ToolExecs[1].outcome) => ~discovery[1].success
           /\ pc = "done"
           /\ view = IF discovery[1].success THEN "results" ELSE "failed")
  /\ (ToolExecs # <<>> /\ pc = "done") => (SwitchCalled \/ DiscoverCalled)

\* a discovery whose first process could not be spawned has returned its
\* failure value
C20_Witness ==
  /\ DiscoverCalled
  /\ ToolExecs[1].outcome.kind = "spawnerr"
  /\ ~discovery[1].success
  /\ view = "failed"

\* the toggle command has got past validation
TogglePassed == entry = "toggle" /\ pc # "idle" /\ completeValidation[1].status # "failure"

\* C22: the executable path the toggle command resolves and dispatches to is
\* the path validatePreferences checked for this platform: whenever the toggle
\* gets past validation, and whenever switchInput is called, that path is the
\* configured path of the platform's tool, is not blank and is a file that
\* exists, and the command line run starts with it.
C22_DispatchedPathIsValidatedPath ==
  /\ TogglePassed
       => (/\ resolvedExePath = ConfiguredTool
           /\ ToolPresent
           /\ completeValidation[1].os = hostOs)
  /\ SwitchCalled
       => (/\ TogglePassed
           /\ SubSeq(ToolExecs[1].command, 1, Len(Quoted(ConfiguredTool)))
                = Quoted(ConfiguredTool)
           /\ ToolPresent)

\* a macOS toggle has dispatched to the m1ddc path while another, missing,
\* ControlMyMonitor path is configured too
C22_Witness ==
  /\ SwitchCalled
  /\ hostOs = "darwin"
  /\ resolvedExePath = M1ddcFile
  /\ Get(preferenceStore, "controlMyMonitorPath") = MissingFile

\* C23: whenever the discovery command reaches discoverInputs, the
\* isAppleSilicon flag that chose the executable path is true exactly when
\* the os that chooses the command form is "darwin": the m1ddc path goes
\* with the macOS command form and the ControlMyMonitor path with the Windows
\* one.
C23_PathAndFormAgree ==
  DiscoverCalled
    => (/\ completeValidation[1].isAppleSilicon
             <=> (completeValidation[1].os = "darwin")
        /\ completeValidation[1].os \in {"darwin", "win32"}
        /\ ToolExecs[1].command =
             IF completeValidation[1].os = "darwin"
             THEN MacGetCommand(Get(preferenceStore, "m1ddcPath"))
             ELSE WindowsMonitorsCommand(Get(preferenceStore,
                                             "controlMyMonitorPath")))

\* a discovery on a Mac whose chip could not be identified has run m1ddc
C23_Witness ==
  /\ DiscoverCalled
  /\ ClassifiedAs("unknown")
  /\ completeValidation[1].isAppleSilicon
  /\ ToolExecs[1].command = MacGetCommand(M1ddcFile)

\* C24: in a run of the toggle command that got past validation: the toast is
\* Animated from when it is shown until the switch returns; the switch is
\* attempted only with the main window closed and the toast shown; and once
\* the command has ended the toast is Success exactly when switchInput
\* returned status "success" and Failure otherwise, never Animated.
C24_ToastEndsTerminal ==
  TogglePassed
    => (/\ pc \in {"waiting", "switching"}
             => (/\ windowClosed
                 /\ toast # <<>> /\ toast[1].style = "Animated")
        /\ pc \in {"closing", "toasting"} => toast = <<>>
        /\ SwitchCalled <=> pc = "done"
        /\ SwitchCalled
             => (/\ windowClosed
                 /\ toast # <<>>
                 /\ toast[1].style =
                      IF result[1].status = "success" THEN "Success" ELSE "Failure"
                 /\ toast[1].style # "Animated"))

\* a toggle that got past validation has ended on a failed switch
C24_Witness ==
  /\ TogglePassed /\ pc = "done"
  /\ result[1].status = "failure"
  /\ toast[1].style = "Failure"
  /\ windowClosed

\* C25: on macOS with chip generation "unknown" (sysctl failed or printed an
\* unrecognised brand string) the machine is treated as Apple Silicon with
\* the built-in HDMI flag false, platform validation returns success, and a
\* toggle with the tool present is not blocked: it goes on to switchInput.
C25_UnknownChipPermitted ==
  ClassifiedAs("unknown")
    => (/\ completeValidation[1].isAppleSilicon
        /\ ~completeValidation[1].m1ddcSupportsBuiltinHdmi
        /\ \A pv \in {PlatformValidation(DetectedPlatform)} :
             /\ pv.status = "success"
             /\ pv.title = <<>>
        /\ (entry = "toggle" /\ ToolPresent)
             => (/\ completeValidation[1].status = "success"
                 /\ resolvedExePath = Get(preferenceStore, "m1ddcPath")
                 /\ pc = "done" => SwitchCalled))

\* a toggle on a Mac whose sysctl failed has dispatched its switch
C25_Witness ==
  /\ ClassifiedAs("unknown")
  /\ SysctlFailed
  /\ entry = "toggle" /\ SwitchCalled
  /\ Len(ToolExecs) = 1

\* C26: on an unsupported OS validatePrerequisites returns the platform
\* failure without reading the preferences, and neither command spawns any
\* process: the toggle command shows the failure toast and returns, the
\* discovery command returns its "nothing could be retrieved" view without
\* calling discoverInputs.
C26_UnsupportedOsStops ==
  (Validated /\ hostOs = "linux")
    => (/\ completeValidation[1].os = "unsupported"
        /\ completeValidation[1].status = "failure"
        /\ completeValidation[1].title
             = <<"This extension only supports macOS and Windows.">>
        /\ prefReads = 0
        /\ (DOMAIN completeValidation[1]) \cap PreferenceKeys = {}
        /\ execLog = <<>>
        /\ ~SwitchCalled /\ ~DiscoverCalled
        /\ pc = "done"
        /\ entry = "toggle"
             => (/\ toast = <<Toast("Failure", completeValidation[1].title,
                                    completeValidation[1].message)>>
                 /\ ~windowClosed)
        /\ entry = "discover" => view = "nothing")

\* the discovery command has run on an unsupported OS with every preference
\* in place
C26_Witness ==
  /\ hostOs = "linux"
  /\ entry = "discover" /\ pc = "done"
  /\ view = "nothing"
  /\ "displayPortValue" \in DOMAIN preferenceStore

\* the position and the locals of the first toggle command, laid out as
\* those of the second
FirstToggle ==
  [pc |-> pc, startedWhile |-> "first", completeValidation |-> completeValidation,
   resolvedExePath |-> resolvedExePath, resolvedInput |-> resolvedInput,
   windowClosed |-> windowClosed, toast |-> toast, result |-> result,
   execLog |-> execLog]

\* the toast a toggle command ends with, given what switchInput returned it
FinalToast(r, input) ==
  IF r.status = "success"
  THEN Toast("Success", <<"Switched to input (">> \o NumStr(input) \o <<")">>, <<>>)
  ELSE Toast("Failure", r.title, r.message)

\* what the toggle command c holds follows from its own validation result
\* and from the outcome of its own process, and from nothing else
OwnOutcomeOnly(c) ==
  c.completeValidation # <<>>
    => \E cv \in {c.completeValidation[1]} :
         /\ cv \in {validatePrerequisites(hostOs, sysctl, preferenceStore) :
                      sysctl \in IF hostOs = "darwin"
                                 THEN {c.execLog[1].outcome}
                                 ELSE SysctlOutcomes}
         /\ IF cv.status = "failure"
            THEN /\ c.pc = "done"
                 /\ c.toast = <<Toast("Failure", cv.title, cv.message)>>
                 /\ c.result = <<>>
                 /\ \A i \in DOMAIN c.execLog : ~IsToolExec(c.execLog[i])
            ELSE /\ c.resolvedExePath =
                      (IF cv.os = "darwin" THEN Get(cv, "m1ddcPath")
                       ELSE Get(cv, "controlMyMonitorPath"))
                 /\ c.resolvedInput =
                      (IF cv.os = "darwin"
                       THEN parseInt(Get(cv, "displayPortValue"))
                       ELSE parseInt(Get(cv, "hdmiPortValue")))
                 /\ c.result # <<>> <=> c.pc = "done"
                 /\ c.result # <<>>
                      => \E e \in {c.execLog[Len(c.execLog)]} :
                           /\ e.command =
                                (IF cv.os = "darwin"
                                 THEN MacSetCommand(c.resolvedInput,
                                                    c.resolvedExePath)
                                 ELSE WindowsSetCommand(c.resolvedInput,
                                        OrElse(Get(cv, "monitorId"), <<"Primary">>),
                                        c.resolvedExePath))
                           /\ c.result[1] =
                                switchInput(cv.os, c.resolvedInput,
                                            OrElse(Get(cv, "monitorId"),
                                                   <<"Primary">>),
                                            c.resolvedExePath, e.outcome)
                           /\ c.toast = <<FinalToast(c.result[1], c.resolvedInput)>>

\* C21: with a second toggle command started while the first is suspended at
\* an await and the two interleaved from then on, what each command resolves,
\* dispatches, gets back and shows at its end follows from its own validation
\* result and its own process outcome alone; and the module-level
\* GenericSuccess object is never written: it keeps the fields it was created
\* with.
C21_OverlappingTogglesIndependent ==
  /\ genericSuccess = GenericSuccessObject
  /\ entry # "discover"
  /\ OwnOutcomeOnly(FirstToggle)
  /\ OwnOutcomeOnly(secondToggle)
  /\ secondToggle.startedWhile
       \in {"never", "closing", "toasting", "waiting", "switching"}

\* the second command was started during the first one's 3-second wait; both
\* have ended, the first on a failed switch and the second on a successful one
C21_Witness ==
  /\ pc = "done" /\ secondToggle.pc = "done"
  /\ secondToggle.startedWhile = "waiting"
  /\ result # <<>> /\ result[1].status = "failure"
  /\ toast[1].style = "Failure"
  /\ secondToggle.result # <<>> /\ secondToggle.result[1].status = "success"
  /\ secondToggle.toast[1].style = "Success"

\* a call of the older dispatcher has returned
OldReturned == entry \in {"switchInput", "discoverInputs"} /\ pc = "done"

\* what validatePrerequisites returned to it: nothing, or one message
OldPrereqError == completeValidation[1].prereqError

IsOldToolExec(e) == e.command \notin {SysctlCommandOld, WhichCommand}

\* the m1ddc and ControlMyMonitor processes the older dispatcher spawned
OldToolExecs == SelectSeq(execLog, IsOldToolExec)

\* C27: switchInput and discoverInputs of the older lib/ddc.ts validate the
\* prerequisites first; whenever validation returns an error message they
\* return a failure that carries this message and no m1ddc or
\* ControlMyMonitor process is spawned; on macOS the tool runs only after
\* `which m1ddc` succeeded, and on Windows only from a path that is set, not
\* blank and an existing file.
C27_OldDispatcherValidatesFirst ==
  OldReturned
    => (/\ hostOs = "darwin" => execLog[1].command = SysctlCommandOld
        /\ OldPrereqError # <<>>
             => (/\ OldToolExecs = <<>>
                 /\ entry = "switchInput"
                      => result = <<[success |-> FALSE,
                                     message |-> OldPrereqError[1]]>>
                 /\ entry = "discoverInputs"
                      => (/\ ~discovery[1].success
                          /\ discovery[1].error = <<OldPrereqError[1]>>
                          /\ discovery[1].availableInfo = <<>>))
        /\ OldToolExecs # <<>>
             => (/\ OldPrereqError = <<>>
                 /\ hostOs \in {"darwin", "win32"}
                 /\ hostOs = "darwin"
                      => (/\ execLog[2].command = WhichCommand
                          /\ execLog[2].outcome.kind = "exit0"
                          /\ \A i \in DOMAIN OldToolExecs :
                               OldToolExecs[i].command[1] = "m1ddc")
                 /\ hostOs = "win32"
                      => (/\ resolvedExePath # Undefined
                          /\ Trim(resolvedExePath) # <<>>
                          /\ resolvedExePath \in ExistingFiles
                          /\ \A i \in DOMAIN OldToolExecs :
                               SubSeq(OldToolExecs[i].command, 1, 3)
                                 = Quoted(resolvedExePath)))
        /\ (hostOs = "linux"
              \/ (hostOs = "win32" /\ resolvedExePath \notin ExistingFiles))
             => OldPrereqError # <<>>)

\* the older switchInput was called on Windows with a path that is no file
\* and returned the validation message
C27_Witness ==
  /\ OldReturned /\ entry = "switchInput"
  /\ hostOs = "win32"
  /\ resolvedExePath = MissingFile
  /\ OldPrereqError # <<>>
  /\ Includes(result[1].message, MissingFile)
  /\ execLog = <<>>

====
